---- MODULE Spec2Model ----
(***************************************************************************)
(* Orbit_Skill backend: the bulk loaders of app/excel_loader.py, the        *)
(* assignment grader of app/routes/shared_content_routes.py and the        *)
(* routes of app/routes/assignment_routes.py, over one relational store    *)
(* with the constraints declared in app/models.py.                         *)
(*                                                                         *)
(* Python str values are TLA+ strings; Python None / NaN is the token None.*)
(***************************************************************************)
EXTENDS Integers, Sequences, FiniteSets, TLC

\* db: the committed content of the database; last: the call that has just ended and is
\* not answered yet; running: the requests that are being served, each with what it has read
VARIABLES db, last, running

vars == <<db, last, running>>

(***************************************************************************)
(* Python values and str methods                                           *)
(***************************************************************************)

\* None (and pandas NaN, which the loaders replace by None or test with notna)
None == "<None>"

\* Python truthiness of a cell value that is None or a str
Truthy(v) == v # None /\ v # ""

\* pd.notna
notna(v) == v # None

CharAt(s, i) == SubSeq(s, i, i)

\* the lower-case form of each upper-case letter
LowerOf ==
    [ A |-> "a", B |-> "b", C |-> "c", D |-> "d", E |-> "e", F |-> "f", G |-> "g",
      H |-> "h", I |-> "i", J |-> "j", K |-> "k", L |-> "l", M |-> "m", N |-> "n",
      O |-> "o", P |-> "p", Q |-> "q", R |-> "r", S |-> "s", T |-> "t", U |-> "u",
      V |-> "v", W |-> "w", X |-> "x", Y |-> "y", Z |-> "z" ]

LowerChar(c) == IF c \in DOMAIN LowerOf THEN LowerOf[c] ELSE c

RECURSIVE lower(_)
\* str.lower
lower(s) == IF s = "" THEN "" ELSE LowerChar(CharAt(s, 1)) \o lower(SubSeq(s, 2, Len(s)))

IsSpace(c) == c \in {" ", "\t", "\n", "\r"}

RECURSIVE lstrip(_)
lstrip(s) == IF s # "" /\ IsSpace(CharAt(s, 1)) THEN lstrip(SubSeq(s, 2, Len(s))) ELSE s

RECURSIVE rstrip(_)
rstrip(s) == IF s # "" /\ IsSpace(CharAt(s, Len(s))) THEN rstrip(SubSeq(s, 1, Len(s) - 1)) ELSE s

\* str.strip
strip(s) == rstrip(lstrip(s))

\* Python `needle in hay` on two str
StrIn(needle, hay) ==
    \E i \in 1..(Len(hay) - Len(needle) + 1) : SubSeq(hay, i, i + Len(needle) - 1) = needle

RECURSIVE replace(_, _, _)
\* str.replace(old, new) for a one-character old
replace(s, old, new) ==
    IF s = "" THEN ""
    ELSE (IF CharAt(s, 1) = old THEN new ELSE CharAt(s, 1)) \o replace(SubSeq(s, 2, Len(s)), old, new)

\* clean_headers, applied to one column header
clean_header(h) ==
    replace(replace(replace(replace(lower(strip(h)), " ", "_"), "/", "_"), ",", "_"), "*", "")

(***************************************************************************)
(* Column Resolver: a row is a sequence of [key, val] pairs in column order *)
(* (the insertion order of the row dict).                                  *)
(***************************************************************************)

RowKeys(row) == {row[i].key : i \in DOMAIN row}

\* row_dict.get(name)
RowGet(row, name) ==
    IF name \in RowKeys(row)
    THEN row[CHOOSE i \in DOMAIN row : row[i].key = name].val
    ELSE None

\* row_keys_lower[l]: the last key whose lower-case form is l
LastKeyLower(row, l) ==
    LET I == {i \in DOMAIN row : lower(row[i].key) = l}
    IN row[CHOOSE i \in I : \A j \in I : j <= i].key

\* the guard of the substring pass for candidate `name` and header `key`
PartialMatch(name, key) ==
    /\ StrIn(lower(name), lower(key)) \/ StrIn(lower(key), lower(name))
    /\ Len(name) > 3 \/ (Len(name) <= 3 /\ lower(name) = lower(key))

\* first index of a sequence that satisfies a membership set, 0 when none
FirstIn(n, S) == IF \E i \in 1..n : i \in S THEN CHOOSE i \in S : \A j \in S : i <= j ELSE 0

\* the candidate of the exact pass, 0 when no candidate is a key of the row
ExactPass(row, possible_names) ==
    FirstIn(Len(possible_names),
            {i \in 1..Len(possible_names) : possible_names[i] \in RowKeys(row)})

\* the candidate of the case-insensitive pass
LowerPass(row, possible_names) ==
    FirstIn(Len(possible_names),
            {i \in 1..Len(possible_names) :
                \E k \in DOMAIN row : lower(row[k].key) = lower(possible_names[i])})

\* the candidate of the substring pass
PartialPass(row, possible_names) ==
    FirstIn(Len(possible_names),
            {i \in 1..Len(possible_names) :
                \E k \in DOMAIN row : PartialMatch(possible_names[i], row[k].key)})

\* the value the three passes return, given the candidate each pass stops at
PassValue(row, possible_names, exact, ci, partial) ==
    IF exact # 0 THEN RowGet(row, possible_names[exact])
    ELSE IF ci # 0 THEN RowGet(row, LastKeyLower(row, lower(possible_names[ci])))
    ELSE IF partial # 0
         THEN row[FirstIn(Len(row), {k \in DOMAIN row :
                      PartialMatch(possible_names[partial], row[k].key)})].val
         ELSE None

find_column_flexible(row, possible_names) ==
    PassValue(row, possible_names, ExactPass(row, possible_names),
              LowerPass(row, possible_names), PartialPass(row, possible_names))

\* Python `a or b` on cell values
Or(a, b) == IF Truthy(a) THEN a ELSE b

(***************************************************************************)
(* Python float arithmetic of the score: IEEE-754 binary64, round to       *)
(* nearest, ties to even.  A float f > 0 is [m, e], the value M * 2^e with *)
(* the 53-bit significand                                                  *)
(*   M = m[5]*2^52 + m[4]*2^39 + m[3]*2^26 + m[2]*2^13 + m[1]              *)
(* held in limbs of 13 bits (2^52 <= M < 2^53, so m[5] = 1).               *)
(***************************************************************************)

\* 2^n for the small n the float arithmetic needs
Pow2(n) == <<1, 2, 4, 8, 16, 32, 64, 128, 256, 512, 1024, 2048, 4096, 8192, 16384,
             32768, 65536, 131072, 262144, 524288, 1048576, 2097152, 4194304>>[n + 1]

Limb == Pow2(13)

\* M + 1, renormalised when the carry reaches 2^53
IncMant(m, e) ==
    LET s1 == m[1] + 1
        s2 == m[2] + s1 \div Limb
        s3 == m[3] + s2 \div Limb
        s4 == m[4] + s3 \div Limb
        s5 == m[5] + s4 \div Limb
    IN  IF s5 = 2
        THEN [m |-> <<0, 0, 0, 0, 1>>, e |-> e + 1]
        ELSE [m |-> <<s1 % Limb, s2 % Limb, s3 % Limb, s4 % Limb, s5>>, e |-> e]

\* Python c / t for ints 0 < c, t < 2^10: the quotient, correctly rounded
TrueDiv(c, t) ==
    LET k == CHOOSE j \in -12..12 :
                 IF j >= 0 THEN t * Pow2(j) <= c /\ c < t * Pow2(j + 1)
                 ELSE t <= c * Pow2(-j) /\ c * Pow2(-j) < 2 * t
        num == IF k >= 0 THEN c ELSE c * Pow2(-k)
        den == IF k >= 0 THEN t * Pow2(k) ELSE t
        r0 == num - den
        q4 == (r0 * Limb) \div den
        r4 == (r0 * Limb) % den
        q3 == (r4 * Limb) \div den
        r3 == (r4 * Limb) % den
        q2 == (r3 * Limb) \div den
        r2 == (r3 * Limb) % den
        q1 == (r2 * Limb) \div den
        r1 == (r2 * Limb) % den
        m == <<q1, q2, q3, q4, 1>>
        up == 2 * r1 > den \/ (2 * r1 = den /\ q1 % 2 = 1)
    IN  IF up THEN IncMant(m, k - 52) ELSE [m |-> m, e |-> k - 52]

\* Python f * 100: the exact product (59 or 60 bits) rounded to 53 bits
Times100(f) ==
    LET p1 == f.m[1] * 100
        p2 == f.m[2] * 100 + p1 \div Limb
        p3 == f.m[3] * 100 + p2 \div Limb
        p4 == f.m[4] * 100 + p3 \div Limb
        p5 == f.m[5] * 100 + p4 \div Limb
        d == IF p5 >= 128 THEN 7 ELSE 6
        w == Pow2(d)
        lo == Pow2(13 - d)
        rem == (p1 % Limb) % w
        m == << (p1 % Limb) \div w + ((p2 % Limb) % w) * lo,
                (p2 % Limb) \div w + ((p3 % Limb) % w) * lo,
                (p3 % Limb) \div w + ((p4 % Limb) % w) * lo,
                (p4 % Limb) \div w + (p5 % w) * lo,
                p5 \div w >>
        up == 2 * rem > w \/ (2 * rem = w /\ m[1] % 2 = 1)
    IN  IF up THEN IncMant(m, f.e + d) ELSE [m |-> m, e |-> f.e + d]

\* Python int(f) for a float 0 < f < 2^27: the fraction bits are cut off
FloatToInt(f) ==
    LET s == -f.e
    IN  IF s >= 39 THEN (f.m[5] * Limb + f.m[4]) \div Pow2(s - 39)
        ELSE (f.m[5] * Limb * Limb + f.m[4] * Limb + f.m[3]) \div Pow2(s - 26)

\* int((correct_count / total_questions * 100)) if total_questions > 0 else 0
PyScore(correct_count, total_questions) ==
    IF total_questions > 0
    THEN (IF correct_count = 0 THEN 0
          ELSE FloatToInt(Times100(TrueDiv(correct_count, total_questions))))
    ELSE 0

(***************************************************************************)
(* The store: the tables of app/models.py that the loaders and the grader  *)
(* read or write, each a set of rows, with the declared NOT NULL, primary  *)
(* key and foreign key constraints.  Nullable descriptive columns that no  *)
(* modelled handler reads back are left out of the rows.                   *)
(***************************************************************************)

EmptyDB ==
    [ users |-> {},                 \* [username, hashed_password]
      manager_employee |-> {},      \* [manager_empid, employee_empid, employee_name]
      employee_competency |-> {},   \* [id, employee_empid, skill, target_date]
      competency_fk |-> TRUE,       \* the employee_competency.employee_empid foreign key exists
      trainers |-> {},              \* [id, skill, competency, trainer_name, expertise_level]
      training_details |-> {},      \* [id, training_name, trainer_name, training_date]
      training_assignments |-> {},  \* [id, training_id, employee_empid, manager_empid]
      training_requests |-> {},     \* [id, training_id, employee_empid, manager_empid]
      shared_assignments |-> {},    \* [id, training_id, trainer_username, title,
                                    \*  description, questions, created_at, updated_at]
      assignment_submissions |-> {},\* [id, training_id, shared_assignment_id, employee_empid,
                                    \*  answers_data, score, total_questions, correct_answers,
                                    \*  submitted_at]
      seq |-> [trainers |-> 1, training_details |-> 1, employee_competency |-> 1,
               shared_assignments |-> 1, assignment_submissions |-> 1,
               training_assignments |-> 1],
      utcnow |-> 0 ]                \* datetime.utcnow(), read by the column defaults

Usernames(d) == {u.username : u \in d.users}

\* ids of training_details that rows of other tables reference by foreign key
ReferencedTrainings(d) ==
    {r.training_id : r \in d.training_assignments \cup d.training_requests
                          \cup d.shared_assignments \cup d.assignment_submissions}

(***************************************************************************)
(* An AsyncSession on PostgreSQL: c is the committed store, w the view of  *)
(* the open transaction.  A statement that fails aborts the transaction:   *)
(* every later statement fails until rollback.                             *)
(***************************************************************************)

Begin(d) == [c |-> d, w |-> d, aborted |-> FALSE]

\* the statement failed
Abort(s) == [s EXCEPT !.aborted = TRUE]

\* db.commit() once the pending rows are flushed
commit(s) == [c |-> s.w, w |-> s.w, aborted |-> FALSE]

\* a rollback that keeps the statements of the open transaction
rollback_keeps_pending(s) == [c |-> s.w, w |-> s.w, aborted |-> FALSE]

\* db.rollback()
rollback(s) == [c |-> s.c, w |-> s.c, aborted |-> FALSE]

(***************************************************************************)
(* load_all_from_excel                                                     *)
(***************************************************************************)

RECURSIVE Tuple(_, _)
\* the first n values of a function on 1..n, as a sequence
Tuple(f, n) == IF n = 0 THEN <<>> ELSE Append(Tuple(f, n - 1), f[n])

\* a DataFrame row as the dict of to_dict('records'): the cleaned headers zipped with the cells
RowDict(columns, cells) ==
    Tuple([i \in 1..Len(columns) |-> [key |-> columns[i], val |-> cells[i]]], Len(columns))

\* the rows of a sheet [headers, rows] after clean_headers
Records(sheet) ==
    LET columns == Tuple([i \in 1..Len(sheet.headers) |-> clean_header(sheet.headers[i])],
                         Len(sheet.headers))
    IN  Tuple([i \in 1..Len(sheet.rows) |-> RowDict(columns, sheet.rows[i])], Len(sheet.rows))

IsDigit(c) == c \in {"0", "1", "2", "3", "4", "5", "6", "7", "8", "9"}

\* pd.to_datetime accepts the text: an ISO date, optionally followed by a time of day
IsDateText(v) ==
    /\ Len(v) \in {10, 19}
    /\ \A i \in {1, 2, 3, 4, 6, 7, 9, 10} : IsDigit(CharAt(v, i))
    /\ CharAt(v, 5) = "-" /\ CharAt(v, 8) = "-"
    /\ Len(v) = 19 =>
          /\ CharAt(v, 11) = " " /\ CharAt(v, 14) = ":" /\ CharAt(v, 17) = ":"
          /\ \A i \in {12, 13, 15, 16, 18, 19} : IsDigit(CharAt(v, i))

\* pd.to_datetime(v).date() if pd.notna(v) else None; "raise" when to_datetime raises
ToDate(v) ==
    IF ~notna(v) THEN None
    ELSE IF IsDateText(v) THEN SubSeq(v, 1, 10)
    ELSE "raise"

\* value.strip() if value and isinstance(value, str)
StripIfSet(v) == IF Truthy(v) THEN strip(v) ELSE v

\* the trainer loop after the lookups: the Trainer to add, or skipped
TrainerChecked(skill_val, competency_val, trainer_found, expertise_level_val) ==
    [ skipped |-> ~Truthy(skill_val) \/ ~Truthy(competency_val)
                      \/ ~Truthy(expertise_level_val),
      raised |-> FALSE,
      rec |-> [skill |-> skill_val, competency |-> competency_val,
               trainer_name |-> IF ~Truthy(trainer_found) THEN "Not Assigned"
                                ELSE trainer_found,
               expertise_level |-> expertise_level_val] ]

\* one pass of the trainer loop
TrainerRow(row) ==
    TrainerChecked(
        StripIfSet(Or(find_column_flexible(row, <<"skill">>), RowGet(row, "skill"))),
        StripIfSet(Or(find_column_flexible(row, <<"competency", "competence">>),
                      RowGet(row, "competency"))),
        StripIfSet(Or(Or(find_column_flexible(row, <<"trainer_name", "trainername",
                                                     "trainer name", "trainer">>),
                         find_column_flexible(row, <<"copmetency", "name">>)),
                      RowGet(row, "trainer_name"))),
        StripIfSet(Or(find_column_flexible(row, <<"expertise_level", "expertiselevel",
                                                  "expertise level", "expertise", "level">>),
                      RowGet(row, "expertise_level"))))

\* the training loop after the lookups: the TrainingDetail to add (built from the raw
\* cells of the canonical columns), skipped, or an uncaught raise of the date conversion
TrainingChecked(row, training_name_val, final_date) ==
    [ skipped |-> ~Truthy(training_name_val),
      raised |-> Truthy(training_name_val) /\ final_date = "raise",
      rec |-> [training_name |-> RowGet(row, "trainingname_program"),
               trainer_name |-> RowGet(row, "trainer_name"),
               training_date |-> final_date] ]

\* one pass of the training loop
TrainingRow(row) ==
    TrainingChecked(
        row,
        StripIfSet(Or(find_column_flexible(row, <<"trainingname_program", "training_name",
                                                  "trainingname", "training name",
                                                  "program", "training">>),
                      RowGet(row, "trainingname_program"))),
        ToDate(RowGet(row, "training_dates")))

\* the tallies after one row: an uncaught raise, a skipped row, or a record to add
Tally(acc, r) ==
    IF r.raised THEN [acc EXCEPT !.raised = TRUE]
    ELSE IF r.skipped THEN [acc EXCEPT !.skipped_count = @ + 1]
    ELSE [acc EXCEPT !.to_add = Append(@, r.rec)]

\* a validation loop over the rows of a sheet: the records to add in row order, the
\* skipped count, and whether a row raised out of the loop (the loop stops there)
RECURSIVE ValidateRows(_, _, _)
ValidateRows(results, i, acc) ==
    IF i > Len(results) \/ acc.raised THEN acc
    ELSE ValidateRows(results, i + 1, Tally(acc, results[i]))

NoRows == [to_add |-> <<>>, skipped_count |-> 0, raised |-> FALSE]

\* the loop over the rows of 'Trainers Details'
TrainerLoop(rows) ==
    ValidateRows(Tuple([k \in DOMAIN rows |-> TrainerRow(rows[k])], Len(rows)), 1, NoRows)

\* the loop over the rows of 'Training Details'
TrainingLoop(rows) ==
    ValidateRows(Tuple([k \in DOMAIN rows |-> TrainingRow(rows[k])], Len(rows)), 1, NoRows)

\* the pending objects flushed by INSERT, each taking the next value of the id sequence
InsertWithIds(table, first_id, recs) ==
    table \cup {[id |-> first_id + i - 1] @@ recs[i] : i \in DOMAIN recs}

\* a NOT NULL column of a pending object is None
NullViolation(recs, columns) == \E i \in DOMAIN recs : \E col \in columns : recs[i][col] = None

MinId(table) == CHOOSE i \in {r.id : r \in table} : \A r \in table : i <= r.id

\* UPDATE t SET id = ROW_NUMBER() OVER (ORDER BY id)
Renumber(table) == {[r EXCEPT !.id = Cardinality({q \in table : q.id <= r.id})] : r \in table}

\* Step 6, trainers: ids that do not start at 1 are renumbered and the sequence restarted
FixTrainerIds(w) ==
    IF w.trainers # {} /\ MinId(w.trainers) # 1
    THEN [w EXCEPT !.trainers = Renumber(w.trainers),
                   !.seq.trainers = Cardinality(w.trainers) + 1]
    ELSE w

\* Step 6, training_details: the same, only while no training request exists
FixTrainingIds(w) ==
    IF /\ w.training_details # {}
       /\ MinId(w.training_details) # 1
       /\ Cardinality(w.training_requests) = 0
    THEN [w EXCEPT !.training_details = Renumber(w.training_details),
                   !.seq.training_details = Cardinality(w.training_details) + 1]
    ELSE w

\* Step 6 of load_all_from_excel, after the verification counts; the trailing db.commit()
\* is the caller's
FixIds(w) == FixTrainingIds(FixTrainerIds(w))

\* what the body of load_all_from_excel leaves when it raises into the outer handler:
\* await db.rollback(); raise
ExcelRaise(s, outcome, tr, tg) ==
    [db |-> rollback(s).c, outcome |-> outcome, trainers |-> tr, trainings |-> tg]

\* Step 1, first statement: DELETE FROM training_assignments
ExcelDeleteAssignments(s) == [s EXCEPT !.w.training_assignments = {}]

\* DELETE FROM training_details fails while a row of another table references a training
ExcelDeleteFails(s) ==
    ReferencedTrainings(s.w) \cap {t.id : t \in s.w.training_details} # {}

\* Step 1, the other statements: DELETE FROM training_details, DELETE FROM trainers
ExcelDeleteRest(s) == [s EXCEPT !.w.training_details = {}, !.w.trainers = {}]

\* Step 1.5: ALTER SEQUENCE ... RESTART WITH 1, its failure caught and logged
ExcelResetSequences(s, fault) ==
    IF fault = "sequence" THEN Abort(s)
    ELSE [s EXCEPT !.w.seq.trainers = 1, !.w.seq.training_details = 1]

\* ExcelAddAll that also restores the assignments of the trainings whose id is taken again
ExcelAddAll_reassigns(s, tr, tg) ==
    [s EXCEPT !.w.trainers = InsertWithIds(@, s.w.seq.trainers, tr.to_add),
              !.w.seq.trainers = @ + Len(tr.to_add),
              !.w.training_details = InsertWithIds(@, s.w.seq.training_details, tg.to_add),
              !.w.seq.training_details = @ + Len(tg.to_add),
              !.w.training_assignments =
                  {a \in s.c.training_assignments :
                      a.training_id - s.w.seq.training_details + 1 \in DOMAIN tg.to_add}]

\* Step 4: db.add_all of the two lists, flushed by INSERT at the commit
ExcelAddAll(s, tr, tg) ==
    [s EXCEPT !.w.trainers = InsertWithIds(@, s.w.seq.trainers, tr.to_add),
              !.w.seq.trainers = @ + Len(tr.to_add),
              !.w.training_details = InsertWithIds(@, s.w.seq.training_details, tg.to_add),
              !.w.seq.training_details = @ + Len(tg.to_add)]

\* Step 6 on the committed session: the id fix and its commit, any failure caught and logged
ExcelFixIds(s, fault) ==
    IF fault = "idfix" THEN rollback(Abort(s)) ELSE commit([s EXCEPT !.w = FixIds(s.w)])

\* an id the INSERTs would take is the primary key of a row that is in the table
KeyTaken(table, first_id, recs) ==
    \E i \in DOMAIN recs : first_id + i - 1 \in {r.id : r \in table}

\* Steps 5 and 6: db.commit(), the verification counts, the id fix
ExcelCommit(s, tr, tg, fault) ==
    IF \/ s.aborted
       \/ fault = "commit"
       \/ NullViolation(tg.to_add, {"training_name", "trainer_name"})
       \/ KeyTaken(s.w.trainers, s.w.seq.trainers, tr.to_add)
       \/ KeyTaken(s.w.training_details, s.w.seq.training_details, tg.to_add)
    THEN ExcelRaise(Abort(s), "commit_failed", tr, tg)
    ELSE IF fault = "verify"
         THEN ExcelRaise(Abort(commit(ExcelAddAll(s, tr, tg))), "verify_failed", tr, tg)
         ELSE [db |-> ExcelFixIds(commit(ExcelAddAll(s, tr, tg)), fault).c,
               outcome |-> "ok", trainers |-> tr, trainings |-> tg]

\* after the two validation loops: the uncaught raise of a date, the 'no valid data'
\* error, or the insert
ExcelInsert(s, tr, tg, fault) ==
    IF tg.raised THEN ExcelRaise(s, "bad_date", tr, tg)
    ELSE IF Len(tr.to_add) = 0 /\ Len(tg.to_add) = 0
         THEN ExcelRaise(s, "no_valid_data", tr, tg)
         ELSE ExcelCommit(s, tr, tg, fault)

\* Steps 2 and 3: read and validate the sheet 'Trainers Details', then 'Training Details'
ExcelRead(s, file, fault) ==
    IF "Trainers Details" \notin DOMAIN file
    THEN ExcelRaise(s, "sheet_not_found", NoRows, NoRows)
    ELSE IF "Training Details" \notin DOMAIN file
         THEN ExcelRaise(s, "sheet_not_found",
                         TrainerLoop(Records(file["Trainers Details"])),
                         NoRows)
         ELSE ExcelInsert(s,
                  TrainerLoop(Records(file["Trainers Details"])),
                  TrainingLoop(Records(file["Training Details"])),
                  fault)

\* load_all_from_excel(file, db) on store d.  file maps the names of the sheets present
\* to [headers, rows]; fault names the statement the database fails, if any.
load_all_from_excel(d, file, fault) ==
    IF ExcelDeleteFails(ExcelDeleteAssignments(Begin(d)))
    THEN ExcelRaise(Abort(ExcelDeleteAssignments(Begin(d))), "delete_failed", NoRows, NoRows)
    ELSE ExcelRead(ExcelResetSequences(ExcelDeleteRest(ExcelDeleteAssignments(Begin(d))),
                                       fault),
                   file, fault)

(***************************************************************************)
(* Workbooks uploaded to load_all_from_excel, and its specification        *)
(***************************************************************************)

\* rows in one workbook or CSV file
MaxRows == 2

SeqsUpTo(K, n) == UNION {[1..m -> K] : m \in 0..n}

TrainerHeaders == <<"Skill", "Competency", "Trainer Name", "Expertise Level">>

\* trainer rows: complete with padding, blank trainer name, whitespace-only skill
TrainerCells ==
    { <<" Py ", "Web", "Ann ", "L2">>,
      <<"Py", "Web", None, "L2">>,
      <<"  ", "Web", "Ann", "L2">> }

TrainingHeaders ==
    { <<"TrainingName/Program", "Trainer Name", "Training Dates">>,
      <<"Training Name", "Trainer Name", "Training Dates">> }

\* training rows: complete, blank trainer name and date, blank training name, and a date
\* cell that is no date
TrainingCells ==
    { <<"T1 ", "Ann", "2025-03-01 09:30:00">>,
      <<"T2", None, None>>,
      <<None, "Ann", "2025-03-01">>,
      <<"T3", "Ann", "TBD">> }

ExcelFiles ==
    { ("Trainers Details" :> [headers |-> TrainerHeaders, rows |-> a])
        @@ ("Training Details" :> [headers |-> h, rows |-> b]) :
          <<a, b, h>> \in { x \in SeqsUpTo(TrainerCells, MaxRows)
                                 \X SeqsUpTo(TrainingCells, MaxRows) \X TrainingHeaders :
                            Len(x[1]) + Len(x[2]) <= MaxRows } }
    \cup { "Trainers Details" :> [headers |-> TrainerHeaders, rows |-> a] :
             a \in SeqsUpTo(TrainerCells, 1) }
    \cup { "Training Details" :> [headers |-> h, rows |-> b] :
             <<h, b>> \in TrainingHeaders \X SeqsUpTo(TrainingCells, 1) }

\* the statement the database fails during one call, if any
ExcelFaults == {"none", "sequence", "commit", "verify", "idfix"}

OldUsers == { [username |-> "E1", hashed_password |-> "own"],
              [username |-> "M1", hashed_password |-> "own"] }

\* a store with an earlier import in it; with_request: a training request references it
ExcelDB(with_request) ==
    [EmptyDB EXCEPT
        !.users = OldUsers,
        !.manager_employee = {[manager_empid |-> "M1", employee_empid |-> "E1",
                               employee_name |-> "Bob"]},
        !.employee_competency = {[id |-> 1, employee_empid |-> "E1", skill |-> "Go",
                                  target_date |-> None]},
        !.seq.employee_competency = 2,
        !.trainers = {[id |-> 1, skill |-> "Go", competency |-> "Web",
                       trainer_name |-> "Bob", expertise_level |-> "L1"]},
        !.training_details = {[id |-> 1, training_name |-> "T0", trainer_name |-> "Bob",
                               training_date |-> None]},
        !.training_assignments = {[id |-> 1, training_id |-> 1, employee_empid |-> "E1",
                                   manager_empid |-> "M1"]},
        !.training_requests =
            IF with_request
            THEN {[id |-> 1, training_id |-> 1, employee_empid |-> "E1",
                   manager_empid |-> "M1"]}
            ELSE {},
        !.seq.trainers = 2,
        !.seq.training_details = 2]

NoCall == [op |-> "none"]

InitExcel == /\ \E with_request \in BOOLEAN : db = ExcelDB(with_request)
             /\ last = NoCall /\ running = {}

\* the endpoint answers the caller; the record of the call is dropped with the request
Respond == /\ last # NoCall
           /\ last' = NoCall
           /\ UNCHANGED <<db, running>>

\* POST /upload-and-refresh: one call of load_all_from_excel on a fresh session
LoadAllFromExcel ==
    /\ last = NoCall
    /\ UNCHANGED running
    /\ \E file \in ExcelFiles, fault \in ExcelFaults :
        \E r \in {load_all_from_excel(db, file, fault)} :
            /\ db' = r.db
            /\ last' = [op |-> "load_all_from_excel", file |-> file, fault |-> fault,
                        before |-> db, outcome |-> r.outcome,
                        trainers |-> r.trainers, trainings |-> r.trainings]

NextExcel == LoadAllFromExcel \/ Respond

SpecExcel == InitExcel /\ [][NextExcel]_vars

(***************************************************************************)
(* load_manager_employee_from_csv.  A relationship row keeps the two empids *)
(* of its composite key; the name and flag columns constrain nothing.       *)
(***************************************************************************)

\* df.columns.str.strip().str.lower().str.replace(" ", "_")
csv_header(h) == replace(lower(strip(h)), " ", "_")

\* the rows of a CSV file [headers, rows] under the cleaned column names
CsvRecords(file) ==
    Tuple([i \in 1..Len(file.rows) |->
              RowDict(Tuple([k \in 1..Len(file.headers) |-> csv_header(file.headers[k])],
                            Len(file.headers)),
                      file.rows[i])],
          Len(file.rows))

\* the required columns that are no column of the CSV
MissingColumns(file) ==
    {"manager_empid", "manager_name", "employee_empid", "employee_name"}
        \ {csv_header(file.headers[k]) : k \in DOMAIN file.headers}

\* set(df[col].dropna().astype(str).unique()): the cells as read, not stripped
ColumnIds(rows, col) == {RowGet(rows[i], col) : i \in DOMAIN rows} \ {None}

\* all_user_ids - existing_usernames
MissingUserIds(w, rows) ==
    (ColumnIds(rows, "manager_empid") \cup ColumnIds(rows, "employee_empid")) \ Usernames(w)

\* get_password_hash("password123")
DefaultPasswordHash == "hash(password123)"

\* User(username=str(user_id), hashed_password=default_password_hash) per missing id
NewUsers(missing) == {[username |-> u, hashed_password |-> DefaultPasswordHash] : u \in missing}

\* str(cell).strip() if pd.notna(cell) else None
StripCell(v) == IF notna(v) THEN strip(v) ELSE None

\* the row loop after the cells are read: the ManagerEmployee to add, or skipped
CsvChecked(manager_empid, employee_empid, employee_name) ==
    [ skipped |-> ~Truthy(manager_empid) \/ ~Truthy(employee_empid),
      raised |-> FALSE,
      rec |-> [manager_empid |-> manager_empid, employee_empid |-> employee_empid,
               employee_name |-> employee_name] ]

\* one pass of the row loop
CsvRow(row) ==
    CsvChecked(StripCell(RowGet(row, "manager_empid")),
               StripCell(RowGet(row, "employee_empid")),
               StripCell(RowGet(row, "employee_name")))

\* the loop over the rows of the CSV
CsvLoop(rows) ==
    ValidateRows(Tuple([k \in DOMAIN rows |-> CsvRow(rows[k])], Len(rows)), 1, NoRows)

\* the elements of a sequence
Range(seq) == {seq[i] : i \in DOMAIN seq}

\* INSERT INTO manager_employee fails: an empid that is no users.username (foreign
\* keys), or the same (manager_empid, employee_empid) twice (primary key)
RelationInsertFails(w, recs) ==
    \/ \E i \in DOMAIN recs : \/ recs[i].manager_empid \notin Usernames(w)
                              \/ recs[i].employee_empid \notin Usernames(w)
    \/ \E i, j \in DOMAIN recs : /\ i # j
                                  /\ recs[i].manager_empid = recs[j].manager_empid
                                  /\ recs[i].employee_empid = recs[j].employee_empid

\* what load_manager_employee_from_csv leaves when it raises into the outer handler:
\* await db.rollback(); raise
CsvRaise(s, outcome, created, relations) ==
    [db |-> rollback(s).c, outcome |-> outcome, created |-> created,
     relations |-> relations]

\* DELETE FROM manager_employee
CsvDelete(s) == [s EXCEPT !.w.manager_employee = {}]

\* Step 6: db.add_all and db.commit(), or the 'no valid data' error
CsvInsert(s, relations, created, fault) ==
    IF Len(relations.to_add) = 0 THEN CsvRaise(s, "no_valid_data", created, relations)
    ELSE IF fault = "commit" \/ RelationInsertFails(s.w, relations.to_add)
         THEN CsvRaise(Abort(s), "commit_failed", created, relations)
         ELSE [db |-> commit([s EXCEPT !.w.manager_employee =
                                           @ \cup Range(relations.to_add)]).c,
               outcome |-> "ok", created |-> created, relations |-> relations]

\* Step 3: the missing users are added and committed on the loader's session; a failure
\* is rolled back and raised as 'Failed to create user accounts'
CsvCreateUsers(s, rows, missing, fault) ==
    IF missing = {} THEN CsvInsert(s, CsvLoop(rows), {}, fault)
    ELSE IF fault = "users" THEN CsvRaise(rollback(Abort(s)), "users_failed", {}, NoRows)
    ELSE CsvInsert(commit([s EXCEPT !.w.users = @ \cup NewUsers(missing)]),
                   CsvLoop(rows), missing, fault)

\* after the DELETE: the required columns, then the Reconciler
CsvRead(s, file, fault) ==
    IF MissingColumns(file) # {} THEN CsvRaise(s, "missing_columns", {}, NoRows)
    ELSE CsvCreateUsers(s, CsvRecords(file), MissingUserIds(s.w, CsvRecords(file)), fault)

\* load_manager_employee_from_csv(file, db) on store d; fault names the statement the
\* database fails, if any
load_manager_employee_from_csv(d, file, fault) == CsvRead(CsvDelete(Begin(d)), file, fault)

(***************************************************************************)
(* CSV files uploaded to load_manager_employee_from_csv, and its            *)
(* specification                                                           *)
(***************************************************************************)

\* a complete header row, and one without the column employee_name
CsvHeaders ==
    { <<"Manager EmpID", "Manager Name", "Employee EmpID", "Employee Name">>,
      <<"manager_empid", "manager_name", "employee_empid">> }

\* rows: two known users, two unknown users, a padded manager id, an empty employee id,
\* a whitespace-only manager id
CsvCells ==
    { <<"M1", "Ann", "E1", "Bob">>,
      <<"M2", "Ann", "E2", "Bob">>,
      <<" M3", "Ann", "E1", "Bob">>,
      <<"M2", "Ann", None, "Bob">>,
      <<"  ", "Ann", "E1", "Bob">> }

CsvFiles ==
    {[headers |-> h, rows |-> r] : h \in CsvHeaders, r \in SeqsUpTo(CsvCells, MaxRows)}

CsvFaults == {"none", "users", "commit"}

\* a store with an earlier import of one relationship between two registered users
CsvDB ==
    [EmptyDB EXCEPT
        !.users = OldUsers,
        !.manager_employee = {[manager_empid |-> "M1", employee_empid |-> "E1",
                               employee_name |-> "Bob"]}]

InitCsv == db = CsvDB /\ last = NoCall /\ running = {}

\* POST /upload-manager-employee-csv: one call of load_manager_employee_from_csv on a fresh
\* session
LoadManagerEmployeeFromCsv ==
    /\ last = NoCall
    /\ UNCHANGED running
    /\ \E file \in CsvFiles, fault \in CsvFaults :
        \E r \in {load_manager_employee_from_csv(db, file, fault)} :
            /\ db' = r.db
            /\ last' = [op |-> "load_manager_employee_from_csv", file |-> file,
                        fault |-> fault, before |-> db, outcome |-> r.outcome,
                        created |-> r.created, relations |-> r.relations]

NextCsv == LoadManagerEmployeeFromCsv \/ Respond

SpecCsv == InitCsv /\ [][NextCsv]_vars

(***************************************************************************)
(* load_employee_competency_from_excel.  A competency row keeps the         *)
(* employee id, one of its free-text columns (skill) and the target date.  *)
(***************************************************************************)

\* str(employee_empid).strip() if employee_empid else None
EmpidOf(v) == IF Truthy(v) THEN strip(v) ELSE None

\* pd.to_datetime(v).date() if pd.notna(v) and v else None
ToDateIfSet(v) == IF Truthy(v) THEN ToDate(v) ELSE None

\* the row loop after the lookups: the EmployeeCompetency to add, or skipped, which is
\* also where an exception raised inside the loop body ends
CompetencyChecked(employee_empid, skill, final_target_date) ==
    [ skipped |-> final_target_date = "raise" \/ ~Truthy(employee_empid),
      raised |-> FALSE,
      rec |-> [employee_empid |-> employee_empid, skill |-> skill,
               target_date |-> final_target_date] ]

\* one pass of the row loop
CompetencyRow(row) ==
    CompetencyChecked(
        EmpidOf(find_column_flexible(row, <<"employee_id", "employeeid", "empid",
                                            "employee_empid">>)),
        StripIfSet(find_column_flexible(row, <<"skill">>)),
        ToDateIfSet(find_column_flexible(row, <<"target_date", "target date">>)))

\* the loop over the rows of 'Employee Competency'
CompetencyLoop(rows) ==
    ValidateRows(Tuple([k \in DOMAIN rows |-> CompetencyRow(rows[k])], Len(rows)), 1, NoRows)

\* what load_employee_competency_from_excel leaves when it raises into the outer
\* handler: await db.rollback(); raise
CompetencyRaise(s, outcome, competencies) ==
    [db |-> rollback(s).c, outcome |-> outcome, competencies |-> competencies]

\* DELETE FROM employee_competency; ALTER SEQUENCE employee_competency_id_seq RESTART
\* WITH 1
CompetencyDelete(s) ==
    [s EXCEPT !.w.employee_competency = {}, !.w.seq.employee_competency = 1]

\* CompetencyDropFk without the commit that follows the DROP
CompetencyDropFk_pending(s, fault) ==
    IF ~s.w.competency_fk THEN s
    ELSE IF fault = "drop" THEN Abort(s)
    ELSE [s EXCEPT !.w.competency_fk = FALSE]

\* Step 3: when the foreign key on employee_empid is found it is dropped and the
\* session committed; a failure of the DROP is caught and logged
CompetencyDropFk(s, fault) ==
    IF ~s.w.competency_fk THEN s
    ELSE IF fault = "drop" THEN Abort(s)
    ELSE commit([s EXCEPT !.w.competency_fk = FALSE])

\* INSERT INTO employee_competency fails on a standing foreign key
CompetencyInsertFails(w, recs) ==
    w.competency_fk /\ \E i \in DOMAIN recs : recs[i].employee_empid \notin Usernames(w)

\* db.add_all of the rows, flushed by INSERT at the commit
CompetencyAddAll(s, recs) ==
    [s EXCEPT !.w.employee_competency = InsertWithIds(@, s.w.seq.employee_competency, recs),
              !.w.seq.employee_competency = @ + Len(recs)]

\* Step 7: ids renumbered from 1 in id order, the sequence restarted past the maximum
CompetencyRenumber(w) ==
    [w EXCEPT !.employee_competency = Renumber(w.employee_competency),
              !.seq.employee_competency = Cardinality(w.employee_competency) + 1]

\* Steps 6 and 7 on the rows to add: db.commit(), then the renumbering and its commit,
\* whose failure is raised
CompetencyCommit(s, competencies, fault) ==
    IF s.aborted \/ fault = "commit" \/ CompetencyInsertFails(s.w, competencies.to_add)
    THEN CompetencyRaise(Abort(s), "commit_failed", competencies)
    ELSE IF fault = "renumber"
         THEN CompetencyRaise(Abort(commit(CompetencyAddAll(s, competencies.to_add))),
                              "renumber_failed", competencies)
         ELSE [db |-> commit([commit(CompetencyAddAll(s, competencies.to_add))
                                  EXCEPT !.w = CompetencyRenumber(@)]).c,
               outcome |-> "ok", competencies |-> competencies]

\* after the row loop: the 'no valid data' error, or the insert
CompetencyInsert(s, competencies, fault) ==
    IF Len(competencies.to_add) = 0
    THEN CompetencyRaise(s, "no_valid_data", competencies)
    ELSE CompetencyCommit(s, competencies, fault)

\* load_employee_competency_from_excel(file, db) on store d; fault names the statement
\* the database fails, if any
load_employee_competency_from_excel(d, file, fault) ==
    IF "Employee Competency" \notin DOMAIN file
    THEN CompetencyRaise(CompetencyDelete(Begin(d)), "sheet_not_found", NoRows)
    ELSE CompetencyInsert(
             CompetencyDropFk(CompetencyDelete(Begin(d)), fault),
             CompetencyLoop(Records(file["Employee Competency"])),
             fault)

(***************************************************************************)
(* Workbooks given to load_employee_competency_from_excel, and its          *)
(* specification                                                           *)
(***************************************************************************)

CompetencyHeaders == <<"Employee ID", "Skill", "Target Date">>

\* rows: complete, no employee id, a padded id of no user with a date cell that is no
\* date, an id of no user
CompetencyCells ==
    { <<"E1", "Py", "2025-03-01">>,
      <<None, "Py", None>>,
      <<" E9 ", "Go", "TBD">>,
      <<"E9", " Go", None>> }

CompetencyFiles ==
    { "Employee Competency" :> [headers |-> CompetencyHeaders, rows |-> r] :
        r \in SeqsUpTo(CompetencyCells, MaxRows) }
    \cup { "Trainers Details" :> [headers |-> TrainerHeaders, rows |-> <<>>] }

CompetencyFaults == {"none", "drop", "commit", "renumber"}

\* a store with an earlier competency import; fk: the foreign key on employee_empid
\* still stands
CompetencyDB(fk) ==
    [EmptyDB EXCEPT
        !.users = OldUsers,
        !.competency_fk = fk,
        !.employee_competency = {[id |-> 1, employee_empid |-> "E1", skill |-> "Go",
                                  target_date |-> None]},
        !.seq.employee_competency = 2]

InitCompetency == /\ \E fk \in BOOLEAN : db = CompetencyDB(fk)
                  /\ last = NoCall /\ running = {}

\* one call of load_employee_competency_from_excel on a fresh session
LoadEmployeeCompetencyFromExcel ==
    /\ last = NoCall
    /\ UNCHANGED running
    /\ \E file \in CompetencyFiles, fault \in CompetencyFaults :
        \E r \in {load_employee_competency_from_excel(db, file, fault)} :
            /\ db' = r.db
            /\ last' = [op |-> "load_employee_competency_from_excel", file |-> file,
                        fault |-> fault, before |-> db, outcome |-> r.outcome,
                        competencies |-> r.competencies]

NextCompetency == LoadEmployeeCompetencyFromExcel \/ Respond

SpecCompetency == InitCompetency /\ [][NextCompetency]_vars

(***************************************************************************)
(* submit_assignment.  The answer key is the question list of a shared     *)
(* assignment: each question has a type and the isCorrect flags of its     *)
(* options.  Indices are Python's, from 0.                                 *)
(***************************************************************************)

\* lst[i] raises no IndexError
InRange(lst, i) == -Len(lst) <= i /\ i < Len(lst)

\* lst[i] for an index in range; a negative index counts from the end
PyIndex(lst, i) == IF i >= 0 THEN lst[i + 1] ELSE lst[Len(lst) + i + 1]

\* correct_indices: the indices of the options flagged isCorrect
CorrectIndices(question) == {k - 1 : k \in {j \in DOMAIN question.options : question.options[j]}}

\* is_correct with partial credit: a multiple-choice answer that selects only correct
\* options passes
is_correct_subset(question, answer) ==
    IF question.type = "single-choice"
    THEN Len(answer.selectedOptions) = 1
            /\ answer.selectedOptions[1] \in CorrectIndices(question)
    ELSE IF question.type = "multiple-choice"
         THEN Range(answer.selectedOptions) \subseteq CorrectIndices(question)
         ELSE FALSE

\* is_correct of one answer against the question it indexes
is_correct(question, answer) ==
    IF question.type = "single-choice"
    THEN Len(answer.selectedOptions) = 1
            /\ answer.selectedOptions[1] \in CorrectIndices(question)
    ELSE IF question.type = "multiple-choice"
         THEN Range(answer.selectedOptions) = CorrectIndices(question)
         ELSE FALSE

\* the tallies after one graded answer: correct_count and the appended question result
Graded(acc, question, answer, correct) ==
    [acc EXCEPT
        !.correct_count = @ + (IF correct THEN 1 ELSE 0),
        !.question_results =
            Append(@, [questionIndex |-> answer.questionIndex,
                       isCorrect |-> correct,
                       correctAnswers |-> IF question.type \in {"single-choice",
                                                                "multiple-choice"}
                                          THEN CorrectIndices(question) ELSE {},
                       userAnswers |-> answer.selectedOptions,
                       userTextAnswer |-> IF question.type = "text-input"
                                          THEN answer.textAnswer ELSE None])]

\* one pass of the evaluation loop: an index at or past the end of the key is passed
\* over, any other index is looked up in the key, which raises IndexError out of range
GradeOne(questions_data, answer, acc) ==
    IF answer.questionIndex >= Len(questions_data) THEN acc
    ELSE IF ~InRange(questions_data, answer.questionIndex) THEN [acc EXCEPT !.raised = TRUE]
    ELSE Graded(acc, PyIndex(questions_data, answer.questionIndex), answer,
                is_correct(PyIndex(questions_data, answer.questionIndex), answer))

RECURSIVE Evaluate(_, _, _, _)
\* the evaluation loop over submission_data.answers
Evaluate(questions_data, answers, i, acc) ==
    IF i > Len(answers) \/ acc.raised THEN acc
    ELSE Evaluate(questions_data, answers, i + 1, GradeOne(questions_data, answers[i], acc))

NoAnswers == [correct_count |-> 0, question_results |-> <<>>, raised |-> FALSE]

\* the AssignmentSubmission stored for a graded answer list
Submission(d, employee, shared_assignment, answers, graded) ==
    [ id |-> d.seq.assignment_submissions,
      training_id |-> shared_assignment.training_id,
      shared_assignment_id |-> shared_assignment.id,
      employee_empid |-> employee,
      answers_data |-> answers,
      score |-> PyScore(graded.correct_count, Len(shared_assignment.questions)),
      total_questions |-> Len(shared_assignment.questions),
      correct_answers |-> graded.correct_count,
      submitted_at |-> d.utcnow ]

\* db.add(submission); await db.commit(); the response built from the stored row
Persist(d, submission, graded) ==
    [db |-> [d EXCEPT !.assignment_submissions = @ \cup {submission},
                      !.seq.assignment_submissions = @ + 1,
                      !.utcnow = @ + 1],
     status |-> 201,
     response |-> [id |-> submission.id, training_id |-> submission.training_id,
                   score |-> submission.score,
                   total_questions |-> submission.total_questions,
                   correct_answers |-> submission.correct_answers,
                   question_results |-> graded.question_results]]

\* a request that ends in an HTTP error: nothing is stored
HttpError(d, status) == [db |-> d, status |-> status, response |-> None]

\* after the evaluation loop: an exception raised in it, or the stored submission
Grade(d, employee, shared_assignment, answers, graded) ==
    IF graded.raised THEN HttpError(d, 500)
    ELSE Persist(d, Submission(d, employee, shared_assignment, answers, graded), graded)

\* SubmitFor without the check of the training assignment
SubmitFor_unassigned(d, employee, assigned, shared, answers) ==
    IF Cardinality(shared) > 1 THEN HttpError(d, 500)
    ELSE IF shared = {} THEN HttpError(d, 404)
    ELSE Grade(d, employee, CHOOSE sa \in shared : TRUE, answers,
               Evaluate((CHOOSE sa \in shared : TRUE).questions, answers, 1, NoAnswers))

\* with the rows the two SELECTs match: scalar_one_or_none raises on several rows, 403
\* without a training assignment, 404 without the shared assignment
SubmitFor(d, employee, assigned, shared, answers) ==
    IF Cardinality(assigned) > 1 THEN HttpError(d, 500)
    ELSE IF assigned = {} THEN HttpError(d, 403)
    ELSE IF Cardinality(shared) > 1 THEN HttpError(d, 500)
    ELSE IF shared = {} THEN HttpError(d, 404)
    ELSE Grade(d, employee, CHOOSE sa \in shared : TRUE, answers,
               Evaluate((CHOOSE sa \in shared : TRUE).questions, answers, 1, NoAnswers))

\* POST /assignments/submit by the authenticated employee
submit_assignment(d, employee, training_id, shared_assignment_id, answers) ==
    SubmitFor(d, employee,
              {a \in d.training_assignments :
                  a.training_id = training_id /\ a.employee_empid = employee},
              {sa \in d.shared_assignments :
                  sa.id = shared_assignment_id /\ sa.training_id = training_id},
              answers)

(***************************************************************************)
(* Answer keys and answer lists given to submit_assignment, and its         *)
(* specification                                                           *)
(***************************************************************************)

\* answers in one submission
MaxAnswers == 2

\* submissions stored
MaxSubmissions == 1

\* the length of the long answer key, and of the answer list that is correct on its
\* first questions
LongKeyLen == 50

LongCorrect == 29

SingleChoice == [type |-> "single-choice", options |-> <<TRUE, FALSE>>]

MultipleChoice == [type |-> "multiple-choice", options |-> <<TRUE, TRUE>>]

TextInput == [type |-> "text-input", options |-> <<>>]

LongKey == [k \in 1..LongKeyLen |-> SingleChoice]

AnswerKeys ==
    { <<>>, <<SingleChoice>>, <<MultipleChoice>>, <<TextInput>>,
      <<SingleChoice, MultipleChoice>>, <<TextInput, MultipleChoice>>, LongKey }

\* one option, the other option, both options in reverse order, a text answer, and an
\* answer for the question before the first
AnswerKinds ==
    { [questionIndex |-> 0, type |-> "single-choice", selectedOptions |-> <<0>>,
       textAnswer |-> ""],
      [questionIndex |-> 0, type |-> "single-choice", selectedOptions |-> <<1>>,
       textAnswer |-> ""],
      [questionIndex |-> 1, type |-> "multiple-choice", selectedOptions |-> <<1, 0>>,
       textAnswer |-> ""],
      [questionIndex |-> 0, type |-> "text-input", selectedOptions |-> <<>>,
       textAnswer |-> "x"],
      [questionIndex |-> -1, type |-> "multiple-choice", selectedOptions |-> <<0, 1>>,
       textAnswer |-> ""] }

\* the first option of each of the first questions of the long key
LongAnswers ==
    [k \in 1..LongCorrect |->
        [questionIndex |-> k - 1, type |-> "single-choice", selectedOptions |-> <<0>>,
         textAnswer |-> ""]]

AnswerLists == SeqsUpTo(AnswerKinds, MaxAnswers) \cup {LongAnswers}

\* a store with one training assigned to employee E1 and one assignment shared for it
GradeDB(key) ==
    [EmptyDB EXCEPT
        !.users = OldUsers \cup {[username |-> "E2", hashed_password |-> "own"]},
        !.training_details = {[id |-> 1, training_name |-> "T0", trainer_name |-> "Bob",
                               training_date |-> None]},
        !.training_assignments = {[id |-> 1, training_id |-> 1, employee_empid |-> "E1",
                                   manager_empid |-> "M1"]},
        !.shared_assignments = {[id |-> 1, training_id |-> 1, trainer_username |-> "M1",
                                 title |-> "Quiz", description |-> "", questions |-> key,
                                 created_at |-> 0, updated_at |-> 0]},
        !.seq.training_details = 2,
        !.seq.shared_assignments = 2,
        !.utcnow = 1]

InitGrade == /\ \E key \in AnswerKeys : db = GradeDB(key)
             /\ last = NoCall /\ running = {}

\* one request to POST /assignments/submit
SubmitAssignment ==
    /\ last = NoCall
    /\ UNCHANGED running
    /\ Cardinality(db.assignment_submissions) < MaxSubmissions
    /\ \E employee \in {"E1", "E2"}, shared_assignment_id \in {1, 2},
          answers \in AnswerLists :
        \E r \in {submit_assignment(db, employee, 1, shared_assignment_id, answers)} :
            /\ db' = r.db
            /\ last' = [op |-> "submit_assignment", before |-> db, employee |-> employee,
                        shared_assignment_id |-> shared_assignment_id,
                        answers |-> answers, status |-> r.status,
                        response |-> r.response]

NextGrade == SubmitAssignment \/ Respond

SpecGrade == InitGrade /\ [][NextGrade]_vars

(***************************************************************************)
(* share_assignment, get_shared_assignment and get_assignment_result.  The *)
(* questions of a request are stored as json.dumps of their dicts and read *)
(* back with json.loads, which returns the same types and flags.           *)
(***************************************************************************)

\* a response with a body and nothing written
Answer(d, status, response) == [db |-> d, status |-> status, response |-> response]

\* is_trainer: the four matching strategies on the lower-cased names
is_trainer(trainer_name, trainer_username, employee_name) ==
    \/ lower(trainer_name) = lower(trainer_username)
    \/ (Truthy(employee_name) /\ lower(trainer_name) = lower(employee_name))
    \/ StrIn(lower(trainer_username), lower(trainer_name))
    \/ (Truthy(employee_name) /\ StrIn(lower(employee_name), lower(trainer_name)))

\* SharedAssignmentResponse of a stored row
SharedAssignmentResponse(sa) ==
    [id |-> sa.id, training_id |-> sa.training_id, trainer_username |-> sa.trainer_username,
     title |-> sa.title, description |-> sa.description, questions |-> sa.questions,
     created_at |-> sa.created_at, updated_at |-> sa.updated_at]

\* an attribute of the loaded object that the handler assigns: the UPDATE carries it
\* when the assigned value differs from the loaded one, else the column keeps its value
Assigned(loaded, value, stored) == IF value # loaded THEN value ELSE stored

\* ShareUpdate that leaves updated_at as it was
ShareUpdate_stale(d, existing_assignment, request) ==
    [d EXCEPT !.shared_assignments =
        {IF sa.id # existing_assignment.id THEN sa
         ELSE [sa EXCEPT
                 !.title = Assigned(existing_assignment.title, request.title, @),
                 !.description =
                     Assigned(existing_assignment.description, request.description, @),
                 !.questions =
                     Assigned(existing_assignment.questions, request.questions, @)] :
         sa \in @},
              !.utcnow = @ + 1]

\* the row that was read takes the request's title, description and questions and a new
\* updated_at by an UPDATE on its id; await db.commit()
ShareUpdate(d, existing_assignment, request) ==
    [d EXCEPT !.shared_assignments =
        {IF sa.id # existing_assignment.id THEN sa
         ELSE [sa EXCEPT
                 !.title = Assigned(existing_assignment.title, request.title, @),
                 !.description =
                     Assigned(existing_assignment.description, request.description, @),
                 !.questions =
                     Assigned(existing_assignment.questions, request.questions, @),
                 !.updated_at = d.utcnow] :
         sa \in @},
              !.utcnow = @ + 1]

\* a new row with the next id, both timestamps from the column defaults; await db.commit()
ShareCreate(d, trainer_username, request) ==
    [d EXCEPT !.shared_assignments =
                  @ \cup {[id |-> d.seq.shared_assignments,
                           training_id |-> request.training_id,
                           trainer_username |-> trainer_username, title |-> request.title,
                           description |-> request.description,
                           questions |-> request.questions,
                           created_at |-> d.utcnow, updated_at |-> d.utcnow]},
              !.seq.shared_assignments = @ + 1,
              !.utcnow = @ + 1]

\* the written row as db.refresh reads it after the commit
SharedRow(d, id) == CHOOSE sa \in d.shared_assignments : sa.id = id

\* the 201 response built from the refreshed row
Shared(d, id) == Answer(d, 201, SharedAssignmentResponse(SharedRow(d, id)))

\* after the trainer check, with the rows `existing` that the SELECT on training_id
\* returned: the row read is overwritten, or a row is created
ShareWrite(d, trainer_username, request, existing) ==
    IF Cardinality(existing) > 1 THEN HttpError(d, 500)
    ELSE IF existing = {}
         THEN Shared(ShareCreate(d, trainer_username, request), d.seq.shared_assignments)
         ELSE Shared(ShareUpdate(d, CHOOSE sa \in existing : TRUE, request),
                     (CHOOSE sa \in existing : TRUE).id)

\* the trainer check on the stripped trainer_name of the training, with the
\* employee_name rows that the caller's username selects from manager_employee
ShareChecked(d, trainer_username, request, trainer_name, names, existing) ==
    IF ~Truthy(trainer_name) THEN HttpError(d, 403)
    ELSE IF Cardinality(names) > 1 THEN HttpError(d, 500)
    ELSE IF ~is_trainer(trainer_name, trainer_username,
                        IF names = {} THEN None ELSE (CHOOSE r \in names : TRUE).employee_name)
         THEN HttpError(d, 403)
         ELSE ShareWrite(d, trainer_username, request, existing)

\* share_assignment given the rows `existing` that its SELECT on shared_assignments
\* returned
ShareGiven(d, trainer_username, request, existing) ==
    IF \A t \in d.training_details : t.id # request.training_id THEN HttpError(d, 404)
    ELSE ShareChecked(d, trainer_username, request,
                      strip(Or((CHOOSE t \in d.training_details :
                                    t.id = request.training_id).trainer_name, "")),
                      {r \in d.manager_employee : r.employee_empid = trainer_username},
                      existing)

\* POST /shared-content/assignments by the authenticated user trainer_username
share_assignment(d, trainer_username, request) ==
    ShareGiven(d, trainer_username, request,
               {sa \in d.shared_assignments : sa.training_id = request.training_id})

\* with the rows the two SELECTs match: 403 without a training assignment, null without a
\* shared assignment, else the stored row with its questions as json.loads returns them
SharedFor(d, assigned, shared) ==
    IF Cardinality(assigned) > 1 THEN HttpError(d, 500)
    ELSE IF assigned = {} THEN HttpError(d, 403)
    ELSE IF Cardinality(shared) > 1 THEN HttpError(d, 500)
    ELSE IF shared = {} THEN Answer(d, 200, None)
    ELSE Answer(d, 200, SharedAssignmentResponse(CHOOSE sa \in shared : TRUE))

\* GET /shared-content/assignments/{training_id} by the authenticated employee
get_shared_assignment(d, employee, training_id) ==
    SharedFor(d,
              {a \in d.training_assignments :
                  a.training_id = training_id /\ a.employee_empid = employee},
              {sa \in d.shared_assignments : sa.training_id = training_id})

\* the response rebuilt for the one submission found: the stored score and counts, the
\* question results from the stored answers against the key as it is now
ResultOf(d, submission, regraded) ==
    IF regraded.raised THEN HttpError(d, 500)
    ELSE Answer(d, 200,
                [id |-> submission.id, training_id |-> submission.training_id,
                 score |-> submission.score,
                 total_questions |-> submission.total_questions,
                 correct_answers |-> submission.correct_answers,
                 question_results |-> regraded.question_results,
                 submitted_at |-> submission.submitted_at])

\* the submissions of the employee for the shared assignment, ordered by submitted_at
\* descending and read with scalar_one_or_none, which raises on more than one row
ResultFor(d, shared_assignment, submissions) ==
    IF Cardinality(submissions) > 1 THEN HttpError(d, 500)
    ELSE IF submissions = {} THEN Answer(d, 200, None)
    ELSE ResultOf(d, CHOOSE sub \in submissions : TRUE,
                  Evaluate(shared_assignment.questions,
                           (CHOOSE sub \in submissions : TRUE).answers_data, 1, NoAnswers))

\* with the rows the first two SELECTs match
ResultChecked(d, employee, training_id, assigned, shared) ==
    IF Cardinality(assigned) > 1 THEN HttpError(d, 500)
    ELSE IF assigned = {} THEN HttpError(d, 403)
    ELSE IF Cardinality(shared) > 1 THEN HttpError(d, 500)
    ELSE IF shared = {} THEN Answer(d, 200, None)
    ELSE ResultFor(d, CHOOSE sa \in shared : TRUE,
                   {sub \in d.assignment_submissions :
                       /\ sub.training_id = training_id
                       /\ sub.employee_empid = employee
                       /\ sub.shared_assignment_id = (CHOOSE sa \in shared : TRUE).id})

\* GET /shared-content/assignments/{training_id}/result by the authenticated employee
get_assignment_result(d, employee, training_id) ==
    ResultChecked(d, employee, training_id,
                  {a \in d.training_assignments :
                      a.training_id = training_id /\ a.employee_empid = employee},
                  {sa \in d.shared_assignments : sa.training_id = training_id})

(***************************************************************************)
(* Requests to share, read, answer and review assignments, and their        *)
(* specification                                                           *)
(***************************************************************************)

\* share_assignment requests accepted
MaxShares == 2

\* submissions stored by one employee
MaxResubmissions == 2

\* a single-choice question like SingleChoice with the other option flagged
SingleChoiceB == [type |-> "single-choice", options |-> <<FALSE, TRUE>>]

\* the contents of a request: two quizzes on the same question and options that differ in
\* the flags only, and one with another title and description
ShareContents ==
    { [title |-> "Quiz A", description |-> "", questions |-> <<SingleChoice>>],
      [title |-> "Quiz A", description |-> "", questions |-> <<SingleChoiceB>>],
      [title |-> "Quiz B", description |-> "second", questions |-> <<TextInput, MultipleChoice>>] }

\* SharedAssignmentCreate bodies for the trainings 1..4 and for a training that is not
\* there
ShareRequests == {[training_id |-> t] @@ c : t \in 1..5, c \in ShareContents}

\* answer lists of the employee: none, the first option, the second option
ShareAnswers ==
    { <<>>,
      <<[questionIndex |-> 0, type |-> "single-choice", selectedOptions |-> <<0>>,
         textAnswer |-> ""]>>,
      <<[questionIndex |-> 0, type |-> "single-choice", selectedOptions |-> <<1>>,
         textAnswer |-> ""]>> }

\* a store with employees Ann (E1), Ned (E2) and Joanne (E3, reporting to two managers),
\* trainings whose trainer_name is another person's name, the placeholder, a list of two
\* trainers, and blank; training 3 is assigned to E2
ShareDB ==
    [EmptyDB EXCEPT
        !.users = {[username |-> u, hashed_password |-> "own"] :
                       u \in {"E1", "E2", "E3", "M1", "M2"}},
        !.manager_employee =
            { [manager_empid |-> "M1", employee_empid |-> "E1", employee_name |-> "Ann"],
              [manager_empid |-> "M1", employee_empid |-> "E2", employee_name |-> "Ned"],
              [manager_empid |-> "M1", employee_empid |-> "E3", employee_name |-> "Joanne"],
              [manager_empid |-> "M2", employee_empid |-> "E3", employee_name |-> "Joanne"] },
        !.training_details =
            { [id |-> 1, training_name |-> "T1", trainer_name |-> "Joanne",
               training_date |-> None],
              [id |-> 2, training_name |-> "T2", trainer_name |-> "Not Assigned",
               training_date |-> None],
              [id |-> 3, training_name |-> "T3", trainer_name |-> "Ann\nm1 ",
               training_date |-> None],
              [id |-> 4, training_name |-> "T4", trainer_name |-> "  ",
               training_date |-> None] },
        !.training_assignments = {[id |-> 1, training_id |-> 3, employee_empid |-> "E2",
                                   manager_empid |-> "M1"]},
        !.seq.training_details = 5,
        !.utcnow = 1]

InitShare == db = ShareDB /\ last = NoCall /\ running = {}

\* one request to POST /shared-content/assignments
ShareAssignment ==
    /\ last = NoCall
    /\ UNCHANGED running
    /\ db.utcnow - 1 - Cardinality(db.assignment_submissions) < MaxShares
    /\ \E trainer_username \in {"E1", "E2", "E3", "M1"}, request \in ShareRequests :
        \E r \in {share_assignment(db, trainer_username, request)} :
            /\ db' = r.db
            /\ last' = [op |-> "share_assignment", before |-> db,
                        trainer_username |-> trainer_username, request |-> request,
                        status |-> r.status, response |-> r.response]

\* one request to GET /shared-content/assignments/{training_id}
GetSharedAssignment ==
    /\ last = NoCall
    /\ UNCHANGED running
    /\ \E employee \in {"E1", "E2"}, training_id \in {1, 3} :
        \E r \in {get_shared_assignment(db, employee, training_id)} :
            /\ db' = r.db
            /\ last' = [op |-> "get_shared_assignment", before |-> db,
                        employee |-> employee, training_id |-> training_id,
                        status |-> r.status, response |-> r.response]

\* one request to POST /shared-content/assignments/submit for training 3
Resubmit ==
    /\ last = NoCall
    /\ UNCHANGED running
    /\ Cardinality(db.assignment_submissions) < MaxResubmissions
    /\ \E employee \in {"E1", "E2"}, sa \in db.shared_assignments, answers \in ShareAnswers :
        \E r \in {submit_assignment(db, employee, 3, sa.id, answers)} :
            /\ db' = r.db
            /\ last' = [op |-> "submit_assignment", before |-> db, employee |-> employee,
                        shared_assignment_id |-> sa.id,
                        answers |-> answers, status |-> r.status,
                        response |-> r.response]

\* one request to GET /shared-content/assignments/{training_id}/result
GetAssignmentResult ==
    /\ last = NoCall
    /\ UNCHANGED running
    /\ \E employee \in {"E1", "E2"}, training_id \in {1, 3} :
        \E r \in {get_assignment_result(db, employee, training_id)} :
            /\ db' = r.db
            /\ last' = [op |-> "get_assignment_result", before |-> db,
                        employee |-> employee, training_id |-> training_id,
                        status |-> r.status, response |-> r.response]

NextShare ==
    \/ ShareAssignment
    \/ GetSharedAssignment
    \/ Resubmit
    \/ GetAssignmentResult
    \/ Respond

SpecShare == InitShare /\ [][NextShare]_vars

(***************************************************************************)
(* The Column Resolver on its own: a row and a candidate list are drawn,   *)
(* and find_column_flexible is applied to them.                            *)
(***************************************************************************)

\* the most columns of a row and the most candidates of a list
MaxNames == 2

\* headers as clean_headers leaves them, among them a short one and two that differ in
\* case only
ResolverHeaders == {"name", "Name", "id", "trainer", "trainer_name"}

\* a cell holds the name of its column, and the cell under "Name" is empty
ResolverCell(h) == [key |-> h, val |-> IF h = "Name" THEN None ELSE h]

\* rows with distinct keys, as a dict has
ResolverRows ==
    { [i \in DOMAIN hs |-> ResolverCell(hs[i])] :
        hs \in {x \in SeqsUpTo(ResolverHeaders, MaxNames) :
                  x # <<>> /\ \A i, j \in DOMAIN x : x[i] = x[j] => i = j} }

ResolverCandidates == {"name", "NAME", "nam", "id", "trainer_id", "trainer"}

InitResolve ==
    /\ \E row \in ResolverRows,
          possible_names \in SeqsUpTo(ResolverCandidates, MaxNames) \ {<<>>} :
        db = [row |-> row, possible_names |-> possible_names]
    /\ last = NoCall
    /\ running = {}

\* one call find_column_flexible(row_dict, possible_names)
FindColumnFlexible ==
    /\ last = NoCall
    /\ last' = [op |-> "find_column_flexible",
                value |-> find_column_flexible(db.row, db.possible_names)]
    /\ UNCHANGED <<db, running>>

NextResolve == FindColumnFlexible

SpecResolve == InitResolve /\ [][NextResolve]_vars

(***************************************************************************)
(* Assignment routes (app/routes/assignment_routes.py). A request is       *)
(* served in two steps, its SELECT and then its write and commit; requests *)
(* of different clients interleave between the two.                        *)
(***************************************************************************)

\* the rows of training_assignments of a training and an employee
AssignmentsOf(d, training_id, employee_empid) ==
    {a \in d.training_assignments :
        a.training_id = training_id /\ a.employee_empid = employee_empid}

\* the lookup without its manager_empid condition
ManagedBy_any(d, manager_username, training_id, employee_empid) ==
    AssignmentsOf(d, training_id, employee_empid)

\* the rows of a training and an employee that a manager recorded
ManagedBy(d, manager_username, training_id, employee_empid) ==
    {a \in AssignmentsOf(d, training_id, employee_empid) :
        a.manager_empid = manager_username}

\* the TrainingAssignment that assign_training_to_employee adds for current_user
NewAssignment(d, current_user, training_id, employee_username) ==
    [ id |-> d.seq.training_assignments, training_id |-> training_id,
      employee_empid |-> employee_username, manager_empid |-> current_user.username ]

\* the foreign keys of training_assignments reject the row
AssignmentInsertFails(d, row) ==
    \/ row.training_id \notin {t.id : t \in d.training_details}
    \/ row.employee_empid \notin Usernames(d)
    \/ row.manager_empid \notin Usernames(d)

\* assign_training_to_employee after its SELECT returned the rows `existing`:
\* scalar_one_or_none raises on two rows, one row answers 400, otherwise the INSERT
\* takes the next id and the commit fails on a broken foreign key
AssignWrite(d, current_user, training_id, employee_username, existing) ==
    IF Cardinality(existing) > 1 THEN HttpError(d, 500)
    ELSE IF existing # {} THEN HttpError(d, 400)
    ELSE IF AssignmentInsertFails(d, NewAssignment(d, current_user, training_id,
                                                   employee_username))
    THEN HttpError([d EXCEPT !.seq.training_assignments = @ + 1], 500)
    ELSE [ db |-> [d EXCEPT !.training_assignments =
                                @ \cup {NewAssignment(d, current_user, training_id,
                                                      employee_username)},
                            !.seq.training_assignments = @ + 1],
           status |-> 201,
           response |-> [message |-> "Training assigned successfully"] ]

\* delete_assignment after its SELECT returned the rows `found`: the DELETE removes the
\* rows that match the three columns when it runs
DeleteWrite(d, manager_username, training_id, employee_empid, found) ==
    IF Cardinality(found) > 1 THEN HttpError(d, 500)
    ELSE IF found = {} THEN HttpError(d, 404)
    ELSE [ db |-> [d EXCEPT !.training_assignments =
                        @ \ ManagedBy(d, manager_username, training_id, employee_empid)],
           status |-> 200,
           response |-> [message |-> "Assignment deleted successfully"] ]

\* the most TrainingAssignment ids ever handed out in a behaviour
MaxAssignments == 2

\* the clients that hold a request open at the same time
Clients == {"a", "b"}

\* the token payloads get_current_user decodes: a manager and an employee
Callers == { [username |-> "M1", role |-> "manager"],
             [username |-> "E1", role |-> "employee"] }

AssignDB ==
    [EmptyDB EXCEPT
        !.users = {[username |-> u, hashed_password |-> "x"] : u \in {"E1", "E2", "M1"}},
        !.training_details = {[id |-> 1, training_name |-> "Python",
                               trainer_name |-> "Joanne", training_date |-> None]},
        !.seq.training_details = 2]

InitAssign == db = AssignDB /\ last = NoCall /\ running = {}

Idle == Clients \ {q.client : q \in running}

\* POST /assignments/ arrives: the dependency get_current_active_user admits the caller
\* and the handler reads the rows of the pair
AssignSelect ==
    /\ db.seq.training_assignments
         + Cardinality({q \in running : q.op = "assign_training_to_employee"})
       <= MaxAssignments
    /\ \E client \in Idle, current_user \in Callers,
          training_id \in {1, 9}, employee_username \in {"E1", "E2"} :
        running' = running \cup
            {[ client |-> client, op |-> "assign_training_to_employee",
               current_user |-> current_user, training_id |-> training_id,
               employee_empid |-> employee_username,
               rows |-> AssignmentsOf(db, training_id, employee_username) ]}
    /\ UNCHANGED <<db, last>>

\* the rest of that handler: the check of what was read, db.add and commit
AssignCommit ==
    /\ last = NoCall
    /\ \E q \in {x \in running : x.op = "assign_training_to_employee"} :
        \E r \in {AssignWrite(db, q.current_user, q.training_id, q.employee_empid,
                              q.rows)} :
            /\ db' = r.db
            /\ last' = [op |-> q.op, before |-> db, request |-> q,
                        status |-> r.status, response |-> r.response]
            /\ running' = running \ {q}

\* DELETE /assignments/{training_id}/{employee_empid} arrives and reads the rows of the
\* pair that the caller recorded
DeleteSelect ==
    /\ \E client \in Idle, current_user \in Callers,
          training_id \in {1, 9}, employee_empid \in {"E1", "E2"} :
        running' = running \cup
            {[ client |-> client, op |-> "delete_assignment",
               current_user |-> current_user, training_id |-> training_id,
               employee_empid |-> employee_empid,
               rows |-> ManagedBy(db, current_user.username, training_id,
                                  employee_empid) ]}
    /\ UNCHANGED <<db, last>>

\* the rest of that handler: 404 when nothing was read, else the DELETE and commit
DeleteCommit ==
    /\ last = NoCall
    /\ \E q \in {x \in running : x.op = "delete_assignment"} :
        \E r \in {DeleteWrite(db, q.current_user.username, q.training_id,
                              q.employee_empid, q.rows)} :
            /\ db' = r.db
            /\ last' = [op |-> q.op, before |-> db, request |-> q,
                        status |-> r.status, response |-> r.response]
            /\ running' = running \ {q}

NextAssign ==
    \/ AssignSelect
    \/ AssignCommit
    \/ DeleteSelect
    \/ DeleteCommit
    \/ Respond

SpecAssign == InitAssign /\ [][NextAssign]_vars

(***************************************************************************)
(* share_assignment served to clients at the same time: between the SELECT *)
(* of the existing row and the commit another request may run.             *)
(***************************************************************************)

\* POST /shared-content/assignments arrives and reads the shared assignment of the
\* training
ShareSelect ==
    /\ db.utcnow - 1 + Cardinality(running) < MaxShares
    /\ \E client \in Idle, trainer_username \in {"E1", "M1"},
          request \in {x \in ShareRequests : x.training_id \in {1, 3}} :
        running' = running \cup
            {[ client |-> client, op |-> "share_assignment",
               trainer_username |-> trainer_username, request |-> request,
               rows |-> {sa \in db.shared_assignments :
                            sa.training_id = request.training_id} ]}
    /\ UNCHANGED <<db, last>>

\* the rest of that handler: the trainer check, then the update of the row read or the
\* insert of a new row, and the commit
ShareCommit ==
    /\ last = NoCall
    /\ \E q \in running :
        \E r \in {ShareGiven(db, q.trainer_username, q.request, q.rows)} :
            /\ db' = r.db
            /\ last' = [op |-> q.op, before |-> db, request |-> q,
                        status |-> r.status, response |-> r.response]
            /\ running' = running \ {q}

NextShareRace ==
    \/ ShareSelect
    \/ ShareCommit
    \/ GetSharedAssignment
    \/ Respond

SpecShareRace == InitShare /\ [][NextShareRace]_vars

(***************************************************************************)
(* load_all_from_excel served to clients at the same time, statement by    *)
(* statement, on PostgreSQL at READ COMMITTED. A DELETE sees the rows      *)
(* committed when it starts and waits for a transaction that has deleted   *)
(* one of them: if that one commits the row is gone and is passed over, if *)
(* it rolls back the row is deleted. Rows another transaction commits      *)
(* after the DELETE started are not seen by it. ALTER SEQUENCE ... RESTART *)
(* is transactional and holds the sequence until the transaction ends. The *)
(* INSERTs are flushed by the commit.                                      *)
(***************************************************************************)

\* the statements of the transaction in order, the last being the flush and commit
ExcelStatements ==
    <<"training_assignments", "training_details", "trainers", "sequences", "insert">>

\* the statement after pc
After(pc) == ExcelStatements[1 + CHOOSE i \in 1..4 : ExcelStatements[i] = pc]

\* the store as the open transaction of run q sees it with the sequences restarted:
\* the committed rows without those it has deleted
View(d, q) ==
    [d EXCEPT !.training_assignments = @ \ q.gone.training_assignments,
              !.training_details = @ \ q.gone.training_details,
              !.trainers = @ \ q.gone.trainers,
              !.seq.trainers = 1,
              !.seq.training_details = 1]

\* the runs whose transaction has deleted rows of the table that run q is about to delete
Blockers(q) == {x \in running \ {q} : x.gone[q.pc] # {}}

\* a run that waited for q goes on when q has ended: past its DELETE, which finds the
\* rows gone, when q committed, and to its DELETE of the rows when q rolled back;
\* a run that was open while q committed has overlapped with a committed run
Released(x, q, committed) ==
    [x EXCEPT !.waiting = FALSE,
              !.pc = IF x.waiting /\ committed THEN After(@) ELSE @,
              !.overlapped = @ \/ committed]

\* workbooks with both sheets, of at most one row each, and complete rows only
RaceFiles ==
    {f \in ExcelFiles :
        /\ DOMAIN f = {"Trainers Details", "Training Details"}
        /\ Len(f["Trainers Details"].rows) <= 1 /\ Len(f["Training Details"].rows) <= 1
        /\ f["Training Details"].headers[1] = "TrainingName/Program"
        /\ \A i \in DOMAIN f["Trainers Details"].rows :
              f["Trainers Details"].rows[i] = <<" Py ", "Web", "Ann ", "L2">>
        /\ \A i \in DOMAIN f["Training Details"].rows :
              f["Training Details"].rows[i] = <<"T1 ", "Ann", "2025-03-01 09:30:00">>}

\* POST /upload-and-refresh arrives: a session is opened for load_all_from_excel
ExcelArrive ==
    /\ \E client \in Idle, file \in RaceFiles :
        running' = running \cup
            {[ client |-> client, op |-> "load_all_from_excel", file |-> file,
               pc |-> "training_assignments",
               gone |-> [training_assignments |-> {}, training_details |-> {},
                         trainers |-> {}],
               waiting |-> FALSE, overlapped |-> FALSE ]}
    /\ UNCHANGED <<db, last>>

\* Step 1, one DELETE of a run: it waits behind a run that has deleted the rows, fails on
\* the foreign key of a training request, or deletes the committed rows of the table
ExcelDelete ==
    \E q \in {x \in running : x.pc \in {"training_assignments", "training_details",
                                        "trainers"} /\ ~x.waiting} :
        IF Blockers(q) # {}
        THEN /\ running' = (running \ {q}) \cup {[q EXCEPT !.waiting = TRUE]}
             /\ UNCHANGED <<db, last>>
        ELSE IF q.pc = "training_details"
                /\ ExcelDeleteFails([w |-> View(db, q)])
        THEN /\ last = NoCall
             /\ last' = [op |-> q.op, file |-> q.file, fault |-> "none", before |-> db,
                         outcome |-> "delete_failed", trainers |-> NoRows,
                         trainings |-> NoRows, request |-> q]
             /\ running' = {Released(x, q, FALSE) : x \in running \ {q}}
             /\ UNCHANGED db
        ELSE /\ running' = (running \ {q}) \cup
                               {[q EXCEPT !.gone[q.pc] = db[q.pc], !.pc = After(@)]}
             /\ UNCHANGED <<db, last>>

\* Step 1.5 of a run, once no other run holds the sequences
ExcelRestart ==
    /\ \E q \in {x \in running : x.pc = "sequences"} :
        /\ \A x \in running \ {q} : x.pc # "insert"
        /\ running' = (running \ {q}) \cup {[q EXCEPT !.pc = After(@)]}
    /\ UNCHANGED <<db, last>>

\* Steps 2 to 6 of a run: the sheets are read and validated, the records flushed and
\* committed, or the transaction rolled back
ExcelFinish ==
    /\ last = NoCall
    /\ \E q \in {x \in running : x.pc = "insert"} :
        \E r \in {ExcelRead([c |-> db, w |-> View(db, q), aborted |-> FALSE],
                            q.file, "none")} :
            /\ db' = r.db
            /\ last' = [op |-> q.op, file |-> q.file, fault |-> "none", before |-> db,
                        outcome |-> r.outcome, trainers |-> r.trainers,
                        trainings |-> r.trainings, request |-> q]
            /\ running' = {Released(x, q, r.outcome = "ok") : x \in running \ {q}}

NextExcelRace ==
    \/ ExcelArrive
    \/ ExcelDelete
    \/ ExcelRestart
    \/ ExcelFinish
    \/ Respond

SpecExcelRace == InitExcel /\ [][NextExcelRace]_vars

(***************************************************************************)
(* Properties of load_all_from_excel                                       *)
(***************************************************************************)

\* the call just made, not yet answered, is a call of load_all_from_excel
ExcelCalled == last.op = "load_all_from_excel"

\* a cell that is empty or whitespace-only
Blank(v) == v = None \/ strip(v) = ""

\* the outcomes in which load_all_from_excel raises before its insert commit succeeded
ExcelFailedBeforeCommit ==
    {"delete_failed", "sheet_not_found", "bad_date", "no_valid_data", "commit_failed"}

\* C1: when load_all_from_excel fails before its insert commit succeeds (a sheet is
\* missing, every row is skipped, a statement or the commit raises), trainers,
\* training_details and training_assignments hold exactly the rows they held before the
\* call.
C1_FailureRestoresTables ==
    (ExcelCalled /\ last.outcome \in ExcelFailedBeforeCommit) =>
        /\ db.trainers = last.before.trainers
        /\ db.training_details = last.before.training_details
        /\ db.training_assignments = last.before.training_assignments

\* C1 witness: the commit of a workbook with a valid trainer row raised, after the three
\* tables had been emptied in the transaction
C1_Witness ==
    /\ ExcelCalled
    /\ last.outcome = "commit_failed"
    /\ Len(last.trainers.to_add) > 0
    /\ last.before.trainers # {}
    /\ last.before.training_assignments # {}

\* C4: in load_all_from_excel every row of a sheet is either skipped and counted once,
\* which happens exactly to the rows with a required field empty or whitespace-only, or
\* staged for insert, so that rows processed = inserted + skipped for each sheet.
C4_RowsSkippedOrStaged ==
    (/\ ExcelCalled
     /\ last.outcome # "delete_failed"
     /\ DOMAIN last.file = {"Trainers Details", "Training Details"}) =>
        /\ last.trainers.skipped_count =
              Cardinality({i \in DOMAIN last.file["Trainers Details"].rows :
                  \E col \in {1, 2, 4} : Blank(last.file["Trainers Details"].rows[i][col])})
        /\ last.trainings.skipped_count =
              Cardinality({i \in DOMAIN last.file["Training Details"].rows :
                  Blank(last.file["Training Details"].rows[i][1])})
        /\ Len(last.file["Trainers Details"].rows) =
              Len(last.trainers.to_add) + last.trainers.skipped_count
        /\ Len(last.file["Training Details"].rows) =
              Len(last.trainings.to_add) + last.trainings.skipped_count

\* C5: with both sheets read and no statement failed by the database,
\* load_all_from_excel fails with 'no valid data' exactly when both valid sets are empty,
\* and commits when at least one sheet yields a valid row.
C5_NoValidDataOrCommit ==
    (/\ ExcelCalled
     /\ last.fault = "none"
     /\ last.outcome \notin {"delete_failed", "bad_date"}
     /\ DOMAIN last.file = {"Trainers Details", "Training Details"}) =>
        /\ last.outcome = "no_valid_data" <=>
              (Len(last.trainers.to_add) = 0 /\ Len(last.trainings.to_add) = 0)
        /\ (Len(last.trainers.to_add) > 0 \/ Len(last.trainings.to_add) > 0) =>
              last.outcome = "ok"

(***************************************************************************)
(* Properties of load_manager_employee_from_csv                            *)
(***************************************************************************)

\* the call just made, not yet answered, is a call of load_manager_employee_from_csv
CsvCalled == last.op = "load_manager_employee_from_csv"

\* the empids the CSV references: the non-empty trimmed cells of the two id columns
CsvEmpids(file) ==
    {strip(c) : c \in ColumnIds(CsvRecords(file), "manager_empid")
                        \cup ColumnIds(CsvRecords(file), "employee_empid")} \ {""}

\* C2: when load_manager_employee_from_csv fails because every row was skipped or
\* because the insert or its commit raised, manager_employee holds exactly the rows it
\* held before the call, also when the run created placeholder users before failing.
C2_FailureRestoresRelations ==
    (CsvCalled /\ last.outcome \in {"no_valid_data", "commit_failed"}) =>
        db.manager_employee = last.before.manager_employee

\* C6: when load_manager_employee_from_csv reaches the insert of the relationship rows
\* and the database fails no statement on its own, both empids of every row that
\* passed validation are usernames of the users table, so the insert does not fail for
\* a missing user.
C6_RelationUsersExist ==
    (CsvCalled /\ last.fault = "none" /\ last.outcome \in {"ok", "commit_failed"}) =>
        \A i \in DOMAIN last.relations.to_add :
            /\ last.relations.to_add[i].manager_empid \in Usernames(db)
            /\ last.relations.to_add[i].employee_empid \in Usernames(db)

\* C7: after a call of load_manager_employee_from_csv that gets past the Reconciler,
\* every empid the CSV references is a user; the users created are exactly the
\* referenced empids that were no user before, each with the default password; and
\* the users that existed before are unchanged.
C7_UsersCreatedIffMissing ==
    (CsvCalled /\ last.outcome \notin {"missing_columns", "users_failed"}) =>
        /\ CsvEmpids(last.file) \subseteq Usernames(db)
        /\ db.users \ last.before.users =
              NewUsers(CsvEmpids(last.file) \ Usernames(last.before))
        /\ last.before.users \subseteq db.users
        /\ \A u, v \in db.users : u.username = v.username => u = v

(***************************************************************************)
(* Properties of load_employee_competency_from_excel                       *)
(***************************************************************************)

\* the call just made, not yet answered, is a call of
\* load_employee_competency_from_excel
CompetencyCalled == last.op = "load_employee_competency_from_excel"

\* C3: when load_employee_competency_from_excel fails before its insert commit (the
\* sheet is missing, every row is skipped, the commit raises), employee_competency
\* holds exactly the rows it held before the call, also when the run found and dropped
\* the foreign-key constraint before failing.
C3_FailureRestoresCompetencies ==
    (/\ CompetencyCalled
     /\ last.outcome \in {"sheet_not_found", "no_valid_data", "commit_failed"}) =>
        db.employee_competency = last.before.employee_competency

(***************************************************************************)
(* Properties of submit_assignment                                         *)
(***************************************************************************)

\* the request just made, not yet answered, stored a submission
Submitted == last.op = "submit_assignment" /\ last.status = 201

\* the answer key of shared assignment 1, the one submissions are graded against
KeyOf(d) == (CHOOSE sa \in d.shared_assignments : sa.id = 1).questions

\* option i (from 0) of the question is flagged correct in the key
Flagged(question, i) == i + 1 \in DOMAIN question.options /\ question.options[i + 1]

\* the number of result entries marked correct
MarkedCorrect(results) == Cardinality({k \in DOMAIN results : results[k].isCorrect})

\* C8: every answer graded by submit_assignment is marked by the rule of the question
\* it indexes: single-choice is correct iff exactly one option is selected and the key
\* flags it; multiple-choice is correct iff the set of selected indices equals the set
\* of flagged indices; text-input is never correct.  correct_answers counts the entries
\* marked correct and total_questions is the length of the key, text-input questions
\* included.
C8_GradingRules ==
    Submitted =>
        /\ \A k \in DOMAIN last.response.question_results :
              \E entry \in {last.response.question_results[k]} :
              \E question \in {PyIndex(KeyOf(db), entry.questionIndex)} :
                  /\ question.type = "single-choice" =>
                        (entry.isCorrect <=>
                            /\ Len(entry.userAnswers) = 1
                            /\ Flagged(question, entry.userAnswers[1]))
                  /\ question.type = "multiple-choice" =>
                        (entry.isCorrect <=>
                            \A i \in 0..(Len(question.options) - 1) :
                                Flagged(question, i) <=>
                                    \E j \in DOMAIN entry.userAnswers :
                                        entry.userAnswers[j] = i)
                  /\ question.type = "text-input" => ~entry.isCorrect
        /\ last.response.correct_answers =
              MarkedCorrect(last.response.question_results)
        /\ last.response.total_questions = Len(KeyOf(db))

\* C8 witness: a stored submission in which a multiple-choice answer listing the two
\* correct options in reverse order is marked correct and a text answer is not
C8_Witness ==
    /\ Submitted
    /\ \E k \in DOMAIN last.response.question_results :
          /\ last.response.question_results[k].isCorrect
          /\ last.response.question_results[k].userAnswers = <<1, 0>>
    /\ \E k \in DOMAIN last.response.question_results :
          /\ ~last.response.question_results[k].isCorrect
          /\ last.response.question_results[k].userTextAnswer = "x"

\* C9: every stored AssignmentSubmission has 0 <= score <= 100 and
\* 0 <= correct_answers <= total_questions, also when the answer list holds several
\* answers for the same questionIndex.
C9_ScoreAndCountsInRange ==
    \A sub \in db.assignment_submissions :
        /\ 0 <= sub.score /\ sub.score <= 100
        /\ 0 <= sub.correct_answers /\ sub.correct_answers <= sub.total_questions

\* C10: the stored score is floor(100 * correct_count / total_question_count) with
\* total_question_count the length of the answer key, whatever the number of answers;
\* a submission against a key of 0 questions is stored with score 0, the division
\* raising no fault.
C10_ScoreIsFloor ==
    /\ \A sub \in db.assignment_submissions :
          /\ sub.total_questions = Len(KeyOf(db))
          /\ sub.score = IF sub.total_questions = 0 THEN 0
                         ELSE (100 * sub.correct_answers) \div sub.total_questions
    /\ (/\ last.op = "submit_assignment"
        /\ last.employee = "E1" /\ last.shared_assignment_id = 1
        /\ Len(KeyOf(db)) = 0
        /\ \A k \in DOMAIN last.answers : last.answers[k].questionIndex >= 0) =>
          (last.status = 201 /\ last.response.score = 0)

\* a request to submit_assignment by the assigned employee against the shared assignment
GradedCall ==
    /\ last.op = "submit_assignment"
    /\ last.employee = "E1"
    /\ last.shared_assignment_id = 1

\* the questionIndex is one of the key's indices 0..len(key)-1
InKey(d, answer) == 0 <= answer.questionIndex /\ answer.questionIndex < Len(KeyOf(d))

\* C11: every answer of submit_assignment whose questionIndex is outside
\* 0..len(key)-1, too large or negative, is dropped: the request is answered 201, and
\* question_results holds one entry per answer whose index is in the key's range and
\* none for another index.
C11_OutOfRangeDropped ==
    GradedCall =>
        /\ last.status = 201
        /\ Len(last.response.question_results) =
              Cardinality({k \in DOMAIN last.answers : InKey(db, last.answers[k])})
        /\ \A k \in DOMAIN last.response.question_results :
              InKey(db, last.response.question_results[k])

(***************************************************************************)
(* Properties of the shared-assignment routes                              *)
(***************************************************************************)

\* the two question lists have the same questions and options and differ at most in the
\* isCorrect flags
SameTexts(qs1, qs2) ==
    /\ Len(qs1) = Len(qs2)
    /\ \A k \in DOMAIN qs1 : /\ qs1[k].type = qs2[k].type
                             /\ Len(qs1[k].options) = Len(qs2[k].options)

\* the store with the questions of the training's shared assignment replaced
Reflagged(d, training_id, questions) ==
    [d EXCEPT !.shared_assignments =
        {IF sa.training_id = training_id THEN [sa EXCEPT !.questions = questions] ELSE sa :
            sa \in @}]

\* C12: the response of get_shared_assignment to an employee who has not submitted
\* does not depend on the isCorrect flags: had the shared assignment differed in its
\* flags only, the response would have been the same.
C12_FlagsHidden ==
    (/\ last.op = "get_shared_assignment"
     /\ last.status = 200
     /\ \E sa \in db.shared_assignments : sa.training_id = last.training_id
     /\ \A sub \in db.assignment_submissions : sub.employee_empid # last.employee) =>
        \A c \in ShareContents :
            SameTexts(c.questions, last.response.questions) =>
                get_shared_assignment(Reflagged(db, last.training_id, c.questions),
                                      last.employee, last.training_id).response
                    = last.response

\* C13: submit_assignment stores a submission only for a caller assigned to the training
\* and a shared assignment whose id and training_id match, and stores it evaluated: its
\* score, total_questions and correct_answers are those of the response; a request
\* answered 403 or 404 adds no submission.
C13_PersistedAfterChecks ==
    /\ (last.op = "submit_assignment" /\ last.status # 201) =>
          db.assignment_submissions = last.before.assignment_submissions
    /\ Submitted =>
          \E sub \in db.assignment_submissions :
              /\ db.assignment_submissions = last.before.assignment_submissions \cup {sub}
              /\ sub \notin last.before.assignment_submissions
              /\ sub.employee_empid = last.employee
              /\ sub.shared_assignment_id = last.shared_assignment_id
              /\ sub.score = last.response.score
              /\ sub.total_questions = last.response.total_questions
              /\ sub.correct_answers = MarkedCorrect(last.response.question_results)
    /\ \A sub \in db.assignment_submissions :
          /\ \E a \in db.training_assignments :
                a.training_id = sub.training_id /\ a.employee_empid = sub.employee_empid
          /\ \E sa \in db.shared_assignments :
                sa.id = sub.shared_assignment_id /\ sa.training_id = sub.training_id
          /\ sub.score \in Int /\ sub.total_questions \in Nat /\ sub.correct_answers \in Nat

\* C13 witness: a submission stored for the assigned employee with two answers evaluated,
\* one of them correct
C13_Witness ==
    /\ Submitted
    /\ Len(last.response.question_results) = 2
    /\ last.response.correct_answers = 1
    /\ \E sub \in db.assignment_submissions : sub.correct_answers = 1 /\ sub.score = 50

\* the lines of a string, split at the newlines
RECURSIVE Lines(_, _)
Lines(s, line) ==
    IF s = "" THEN {line}
    ELSE IF CharAt(s, 1) = "\n" THEN {line} \cup Lines(SubSeq(s, 2, Len(s)), "")
    ELSE Lines(SubSeq(s, 2, Len(s)), line \o CharAt(s, 1))

\* the caller is a designated trainer of the training: the username or an employee name
\* of the caller is, letter case and surrounding blanks aside, one of the trainer names
Designated(d, username, training_id) ==
    \E t \in d.training_details :
        /\ t.id = training_id
        /\ \E name \in Lines(t.trainer_name, "") :
              /\ strip(name) # ""
              /\ \/ lower(strip(name)) = lower(username)
                 \/ \E r \in d.manager_employee :
                        /\ r.employee_empid = username
                        /\ Truthy(r.employee_name)
                        /\ lower(strip(name)) = lower(r.employee_name)

\* C14: share_assignment creates or overwrites the SharedAssignment of a training only
\* for a designated trainer of the training; every other caller of an existing training
\* is answered 403 and the shared assignments stay as they were.
C14_OnlyDesignatedTrainer ==
    (/\ last.op = "share_assignment"
     /\ ~Designated(last.before, last.trainer_username, last.request.training_id)) =>
        /\ db.shared_assignments = last.before.shared_assignments
        /\ (\E t \in last.before.training_details : t.id = last.request.training_id) =>
              last.status = 403

\* a share_assignment request answered 201 for a training that had a shared assignment
Reshared ==
    /\ last.op = "share_assignment"
    /\ last.status = 201
    /\ \E sa \in last.before.shared_assignments : sa.training_id = last.request.training_id

\* C15: share_assignment for a training that already has a SharedAssignment overwrites it
\* in place: the number of rows and the id are unchanged, created_at is preserved,
\* updated_at is later than it was, and title, description and questions are those of the
\* request.
C15_ReshareInPlace ==
    Reshared =>
        \E old \in last.before.shared_assignments, new \in db.shared_assignments :
            /\ old.training_id = last.request.training_id
            /\ db.shared_assignments = (last.before.shared_assignments \ {old}) \cup {new}
            /\ Cardinality(db.shared_assignments) =
                  Cardinality(last.before.shared_assignments)
            /\ new.id = old.id /\ last.response.id = old.id
            /\ new.created_at = old.created_at
            /\ new.updated_at > old.updated_at
            /\ new.title = last.request.title
            /\ new.description = last.request.description
            /\ new.questions = last.request.questions
            /\ last.response = SharedAssignmentResponse(new)

\* C15 witness: Quiz B shared over Quiz A for the same training
C15_Witness ==
    /\ Reshared
    /\ last.request.title = "Quiz B"
    /\ \E old \in last.before.shared_assignments :
          old.training_id = last.request.training_id /\ old.title = "Quiz A"

\* the submissions of the employee for the shared assignment of the training
SubmissionsOf(d, employee, training_id) ==
    {sub \in d.assignment_submissions :
        /\ sub.employee_empid = employee
        /\ sub.training_id = training_id
        /\ \E sa \in d.shared_assignments :
              sa.training_id = training_id /\ sa.id = sub.shared_assignment_id}

\* C16: get_assignment_result for an employee with two or more submissions for the
\* shared assignment is answered 200 with the submission whose submitted_at is the
\* latest.
C16_LatestSubmission ==
    (/\ last.op = "get_assignment_result"
     /\ Cardinality(SubmissionsOf(db, last.employee, last.training_id)) >= 2) =>
        /\ last.status = 200
        /\ \E sub \in SubmissionsOf(db, last.employee, last.training_id) :
              /\ last.response.id = sub.id
              /\ \A other \in SubmissionsOf(db, last.employee, last.training_id) :
                    other.submitted_at <= sub.submitted_at

(***************************************************************************)
(* Properties of the best-effort steps and of the inserted records         *)
(***************************************************************************)

\* the ids of the rows of a table
Ids(table) == {r.id : r \in table}

\* the same upload would succeed on a store without training requests, the database
\* failing no statement
WouldLoad ==
    load_all_from_excel([last.before EXCEPT !.training_requests = {}], last.file,
                        "none").outcome = "ok"

\* C17: after a successful load_all_from_excel the ids of trainers are 1..N and those of
\* training_details 1..M for the N and M rows inserted; a sequence reset that fails, or
\* training_requests rows that exist, do not make the import fail.
C17_DenseIds ==
    ExcelCalled =>
        /\ last.outcome = "ok" =>
              /\ Ids(db.trainers) = 1..Len(last.trainers.to_add)
              /\ Cardinality(db.trainers) = Len(last.trainers.to_add)
              /\ Ids(db.training_details) = 1..Len(last.trainings.to_add)
              /\ Cardinality(db.training_details) = Len(last.trainings.to_add)
        /\ (last.fault \in {"none", "sequence"} /\ WouldLoad) => last.outcome = "ok"

\* C18: a failure of a best-effort step of load_all_from_excel (the sequence reset, the
\* verification counts, the id fix) is caught: an upload that succeeds without the
\* failure returns without error with it, and the rows of the insert are in the tables.
C18_BestEffortSteps ==
    (/\ ExcelCalled
     /\ last.fault \in {"sequence", "verify", "idfix"}
     /\ load_all_from_excel(last.before, last.file, "none").outcome = "ok") =>
        /\ last.outcome = "ok"
        /\ Cardinality(db.trainers) = Len(last.trainers.to_add)
        /\ Cardinality(db.training_details) = Len(last.trainings.to_add)

\* the rows of the sequence are in the table, each under some id
Inserted(recs, table) ==
    \A i \in DOMAIN recs : \E r \in table : \A col \in DOMAIN recs[i] : r[col] = recs[i][col]

\* C19: once load_employee_competency_from_excel has found and dropped the foreign key on
\* employee_empid the key is absent in every later state, whether the load succeeds or
\* fails and rolls back; and with no statement failed by the database every valid row is
\* inserted, also one whose employee_empid is no username.
C19_FkStaysDropped ==
    [][/\ ~db.competency_fk => ~db'.competency_fk
       /\ (/\ last'.op = "load_employee_competency_from_excel"
           /\ "Employee Competency" \in DOMAIN last'.file
           /\ last'.fault # "drop") => ~db'.competency_fk
       /\ (/\ last'.op = "load_employee_competency_from_excel"
           /\ last'.fault = "none"
           /\ Len(last'.competencies.to_add) > 0) =>
              /\ last'.outcome = "ok"
              /\ Cardinality(db'.employee_competency) = Len(last'.competencies.to_add)
              /\ Inserted(last'.competencies.to_add, db'.employee_competency)]_vars

\* C19 witness: a load that found the foreign key, skipped every row and failed, leaving
\* the key dropped
C19_Witness ==
    /\ CompetencyCalled
    /\ last.before.competency_fk
    /\ ~db.competency_fk
    /\ last.outcome = "no_valid_data"
    /\ last.competencies.skipped_count > 0

\* the value is a non-empty string without surrounding whitespace
Trimmed(v) == Truthy(v) /\ strip(v) = v

\* C20: every record load_all_from_excel stages for insert carries the normalized values:
\* skill, competency, expertise_level and training_name are the trimmed resolved values,
\* trainer_name is trimmed or "Not Assigned"; a blank trainer_name makes no import fail.
C20_NormalizedRecords ==
    (/\ ExcelCalled
     /\ last.outcome \notin {"delete_failed", "sheet_not_found"}) =>
        /\ \A i \in DOMAIN last.trainers.to_add :
              /\ Trimmed(last.trainers.to_add[i].skill)
              /\ Trimmed(last.trainers.to_add[i].competency)
              /\ Trimmed(last.trainers.to_add[i].expertise_level)
              /\ Trimmed(last.trainers.to_add[i].trainer_name)
        /\ \A i \in DOMAIN last.trainings.to_add :
              /\ Trimmed(last.trainings.to_add[i].training_name)
              /\ Trimmed(last.trainings.to_add[i].trainer_name)
        /\ last.fault = "none" => last.outcome # "commit_failed"

(***************************************************************************)
(* Properties of the assignment routes                                     *)
(***************************************************************************)

DeleteCalled == last.op = "delete_assignment"

AssignCalled == last.op = "assign_training_to_employee"

\* the row is of the training and the employee the request names
OfRequest(a, q) == a.training_id = q.training_id /\ a.employee_empid = q.employee_empid

\* C21: delete_assignment answers 404 and leaves training_assignments unchanged when its
\* lookup finds no assignment of the pair recorded by the caller; a call that removes
\* anything removes rows whose manager_empid is the caller, and a successful call removes
\* exactly the rows of that training, employee and manager.
C21_DeleteOnlyByManager ==
    DeleteCalled =>
        /\ last.request.rows = {} => last.status = 404
        /\ last.status # 200 =>
              db.training_assignments = last.before.training_assignments
        /\ \A a \in last.before.training_assignments \ db.training_assignments :
              a.manager_empid = last.request.current_user.username
        /\ last.status = 200 =>
              db.training_assignments =
                  {a \in last.before.training_assignments :
                      ~(/\ OfRequest(a, last.request)
                        /\ a.manager_empid = last.request.current_user.username)}

\* C21 witness: a delete removed the caller's assignment while another assignment
\* stayed in the table
C21_Witness ==
    /\ DeleteCalled
    /\ last.status = 200
    /\ last.before.training_assignments # db.training_assignments
    /\ db.training_assignments # {}

\* C22: assign_training_to_employee called by a caller whose role is not manager is
\* rejected and creates no assignment.
C22_OnlyManagersAssign ==
    (AssignCalled /\ last.request.current_user.role # "manager") =>
        /\ last.status \notin {200, 201}
        /\ db.training_assignments = last.before.training_assignments

\* C27: in every reachable state at most one TrainingAssignment exists per training and
\* employee, and an assign for a pair that is assigned answers 400 and changes nothing.
C27_OneAssignmentPerPair ==
    /\ \A a, b \in db.training_assignments :
          (a.training_id = b.training_id /\ a.employee_empid = b.employee_empid) => a = b
    /\ (/\ AssignCalled
        /\ \E a \in last.before.training_assignments : OfRequest(a, last.request)) =>
          /\ last.status = 400
          /\ db.training_assignments = last.before.training_assignments

(***************************************************************************)
(* Properties of the date fields                                           *)
(***************************************************************************)

\* C23: load_all_from_excel never fails on a date cell: no run ends on the conversion of
\* 'Training Dates', every training row with its required name is staged whatever its
\* date cell holds, and a cell that is absent or no date is staged as None.
C23_DatesNormalized ==
    (/\ ExcelCalled
     /\ last.outcome # "delete_failed"
     /\ DOMAIN last.file = {"Trainers Details", "Training Details"}) =>
        /\ last.outcome # "bad_date"
        /\ Len(last.trainings.to_add) =
              Cardinality({i \in DOMAIN last.file["Training Details"].rows :
                  ~Blank(last.file["Training Details"].rows[i][1])})
        /\ \A i \in DOMAIN last.trainings.to_add :
              \/ last.trainings.to_add[i].training_date = None
              \/ IsDateText(last.trainings.to_add[i].training_date)

(***************************************************************************)
(* Properties of the Column Resolver                                       *)
(***************************************************************************)

\* the least element of a non-empty set of indices
Least(S) == CHOOSE i \in S : \A j \in S : i <= j

\* the candidates that are exactly a header of the row
Exactly(row, names) ==
    {i \in DOMAIN names : \E k \in DOMAIN row : row[k].key = names[i]}

\* the candidates that equal a header case-insensitively
Insensitively(row, names) ==
    {i \in DOMAIN names : \E k \in DOMAIN row : lower(row[k].key) = lower(names[i])}

\* one of the two names contains the other, and a name of length <= 3 is matched only
\* by a name equal to it case-insensitively
Contains(name, key) ==
    /\ StrIn(lower(name), lower(key)) \/ StrIn(lower(key), lower(name))
    /\ (Len(name) <= 3 \/ Len(key) <= 3) => lower(name) = lower(key)

\* the candidates that match a header in the substring pass
Containing(row, names) ==
    {i \in DOMAIN names : \E k \in DOMAIN row : Contains(names[i], row[k].key)}

\* the values the three-pass reference algorithm allows for a row and a candidate list
Reference(row, names) ==
    IF Exactly(row, names) # {}
    THEN {row[k].val : k \in {j \in DOMAIN row :
                                row[j].key = names[Least(Exactly(row, names))]}}
    ELSE IF Insensitively(row, names) # {}
    THEN {row[k].val : k \in {j \in DOMAIN row :
             lower(row[j].key) = lower(names[Least(Insensitively(row, names))])}}
    ELSE IF Containing(row, names) # {}
    THEN {row[Least({k \in DOMAIN row :
                       Contains(names[Least(Containing(row, names))], row[k].key)})].val}
    ELSE {None}

\* C24: find_column_flexible returns what the three-pass reference algorithm returns:
\* the value under the first candidate that is a header, else under the first candidate
\* equal to a header case-insensitively, else of the first candidate and header of which
\* one contains the other with no name of length <= 3 matched by a different longer
\* name, else None.
C24_ThreePassLookup ==
    last.op = "find_column_flexible" =>
        last.value \in Reference(db.row, db.possible_names)

(***************************************************************************)
(* Properties of concurrent requests                                       *)
(***************************************************************************)

\* C25: in every reachable state at most one SharedAssignment exists per training_id,
\* and no get_shared_assignment fails on finding two rows.
C25_OneSharedPerTraining ==
    /\ \A a, b \in db.shared_assignments : a.training_id = b.training_id => a = b
    /\ last.op = "get_shared_assignment" => last.status # 500

\* C26: a load_all_from_excel that commits after another run committed while it was
\* open leaves in trainers and in training_details exactly its own valid records, under
\* ids from 1 in row order.
C26_LastCommitWins ==
    (/\ ExcelCalled
     /\ last.outcome = "ok"
     /\ "request" \in DOMAIN last
     /\ last.request.overlapped) =>
        /\ db.trainers = InsertWithIds({}, 1, last.trainers.to_add)
        /\ db.training_details = InsertWithIds({}, 1, last.trainings.to_add)

(***************************************************************************)
(* Properties of the stored result                                         *)
(***************************************************************************)

\* C28: get_assignment_result for an employee with one stored submission returns that
\* submission's score, total_questions and correct_answers, and question results of
\* which as many are marked correct as correct_answers says, also after the assignment
\* was shared again with another answer key.
C28_ResultPersisted ==
    (/\ last.op = "get_assignment_result"
     /\ Cardinality(SubmissionsOf(db, last.employee, last.training_id)) = 1) =>
        /\ last.status = 200
        /\ \E sub \in SubmissionsOf(db, last.employee, last.training_id) :
              /\ last.response.score = sub.score
              /\ last.response.total_questions = sub.total_questions
              /\ last.response.correct_answers = sub.correct_answers
        /\ MarkedCorrect(last.response.question_results) = last.response.correct_answers

(***************************************************************************)
(* Properties of the tables an import leaves alone                         *)
(***************************************************************************)

\* C29: every user that a call of load_manager_employee_from_csv leaves in the users
\* table and that was not there before is a manager or an employee of a relationship
\* row the call inserted; a call that failed leaves no new user.
C29_UsersOnlyForInsertedRows ==
    CsvCalled =>
        \A u \in db.users \ last.before.users :
            /\ last.outcome = "ok"
            /\ \E i \in DOMAIN last.relations.to_add :
                  u.username \in {last.relations.to_add[i].manager_empid,
                                  last.relations.to_add[i].employee_empid}

\* C30: a load_all_from_excel that succeeds leaves training_assignments empty and users,
\* manager_employee and employee_competency as they were; the assignments are deleted
\* with the replacement only, so a load that fails before its commit leaves them as
\* they were.
C30_AssignmentsCleared ==
    ExcelCalled =>
        /\ last.outcome = "ok" =>
              /\ db.training_assignments = {}
              /\ db.users = last.before.users
              /\ db.manager_employee = last.before.manager_employee
              /\ db.employee_competency = last.before.employee_competency
        /\ last.outcome \in ExcelFailedBeforeCommit =>
              db.training_assignments = last.before.training_assignments

\* C30 witness: a successful load on a store with an assignment whose training id is
\* taken again by a row of the new file
C30_Witness ==
    /\ ExcelCalled
    /\ last.outcome = "ok"
    /\ \E a \in last.before.training_assignments :
          \E t \in db.training_details : t.id = a.training_id
    /\ last.before.manager_employee # {}
    /\ last.before.employee_competency # {}

====
